---- MODULE Spec2Model ----
(***************************************************************************)
(* State-machine model of the CISystem frontend's permission resolver      *)
(* (PermissionService) and of the profit-management page's aggregation     *)
(* (ProfitManagementPage), of the date helpers, of the inventory page's     *)
(* status classifier (InventoryPage) and of the profit dashboard            *)
(* (ProfitDashboardPage).  HTTP requests are asynchronous: a request        *)
(* issued by a handler stays pending until its response handler runs, and  *)
(* pending requests complete in any order.                                 *)
(***************************************************************************)
EXTENDS Integers, Sequences, FiniteSets, Bags, TLC

VARIABLES
    \* ---- PermissionService (permission.service.ts) ----
    me,             \* signal me: Null or a user record [roles |-> set of role names]
    myPermissions,  \* signal myPermissions: sequence of UserPermission records
    loaded,         \* private loaded flag
    pending,        \* HTTP requests in flight: records [kind, gen]
    \* history of the permission service (not program state)
    meFetches,      \* number of Me requests issued so far
    permFetches,    \* number of MyPermissions requests issued so far
    reloads,        \* number of reload() calls so far
    skipped,        \* some load() call found loaded set and returned at once
    failed,         \* kinds of the latest load's requests that ended in error
    firstChange,    \* the latest load's first response changed its signal
    \* ---- ProfitManagementPage (shell.layout.ts) ----
    rows,           \* signal rows: sequence of ProfitRow
    loading,        \* signal loading
    error,          \* signal error: Null or [message |-> text]
    form,           \* the form group's raw value [mode, date, month, year]
    inflight,       \* loads whose forkJoin has not emitted yet
    \* the server's data (external)
    reports,        \* date -> daily sales report, or Null where there is none
    expensesDb,     \* the expense records, as the expenses query lists them
    \* history of the page (not program state)
    reordered,      \* rows were set by a load whose daily responses arrived out of index order
    \* ---- date helpers (dashboard.page.ts, shell.layout.ts, date.utils.ts) ----
    calc,           \* the latest call of a date helper: its arguments and results
    \* ---- InventoryPage (inventory.page.ts) ----
    today,          \* the local calendar date of the clock (external)
    tzWest,         \* the local time zone lies west of UTC (external)
    item,           \* the inventory item whose status was asked for last
    status,         \* what statusLabel returned for it
    \* ---- ProfitDashboardPage (profit-dashboard page) ----
    selectedDate,       \* selectedDateForm's date
    dashLoading,        \* signal loading
    dashError,          \* signal error
    grossProfit,        \* signal grossProfit
    expensesToday,      \* signal expensesToday
    profit7DaysLabels,  \* signal profit7DaysLabels
    profit7DaysData,    \* signal profit7DaysData
    topProductsLabels,  \* signal topProductsLabels
    topProductsQty,     \* signal topProductsQty
    expenseBreakdownLabels,  \* signal expenseBreakdownLabels
    expenseBreakdownValues,  \* signal expenseBreakdownValues
    dashInflight,       \* loads of the dashboard whose forkJoin has not emitted yet
    \* ---- GraphqlService (graphql.service.ts) ----
    http,           \* the calls of request() so far: body posted, response, what the caller got
    \* ---- the pages of the router outlet: one page component is alive ----
    page,           \* the page shown
    pgLoading,      \* its signal loading
    pgError,        \* its signal error: Null or [message |-> text]
    pageDate,       \* the date of its date form (dashboard, reports)
    requests,       \* its requests in flight: a bag of [kind, arg]
    lastStep,       \* the handler that ran last and the request it was run for (history)
    dialogOpen,     \* signal confirmDeleteOpen / deleteDialogOpen / adjustDialogOpen
    pendingTarget,  \* signal pendingDelete...Id / pendingDelete / pendingAdjust
    \* ---- DashboardPage (dashboard.page.ts) ----
    dashMe,             \* signal me
    dashPermissions,    \* signal myPermissions
    profitLoading,      \* signal profitLoading
    profitError,        \* signal profitError
    profitShown,        \* the date whose profit figures are shown, Null before the first
    selectedUserId,     \* UsersPage: the user of the permissions dialog, "" for none
    permissionsOpen,    \* UsersPage: whether the permissions dialog is open
    permissionsLoading, \* UsersPage.permissionsLoading
    permissions,        \* UsersPage: the rows of the permissions dialog
    permissionsOwner,   \* history: the user whose stored permissions the rows come from, "" for the defaults
    usersError,         \* UsersPage.error
    usersRequests,      \* UsersPage: the requests in flight, a bag
    sent,               \* history: the setUserPermissions inputs sent, each with the owner of its rows
    products,           \* ProductsPage.products, the list of the last completed load
    pageSize,           \* ProductsPage.pageSize
    pageIndex,          \* ProductsPage.pageIndex
    userMenuOpen,       \* ShellLayout.userMenuOpen
    notificationsOpen,  \* ShellLayout.notificationsOpen
    sidebarOpen,        \* ShellLayout.sidebarOpen
    notificationsCount, \* ShellLayout.notificationsCount
    shellRequests,      \* ShellLayout: the notification requests in flight, a bag
    shellStep           \* history: the operation or handler of the shell that ran last

permVars == <<me, myPermissions, loaded, pending, meFetches, permFetches,
              reloads, skipped, failed, firstChange>>

profitVars == <<rows, loading, error, form, inflight, reports, expensesDb, reordered>>

dateVars == <<calc>>

invVars == <<today, tzWest, item, status>>

dashVars == <<selectedDate, dashLoading, dashError, grossProfit, expensesToday,
              profit7DaysLabels, profit7DaysData, topProductsLabels, topProductsQty,
              expenseBreakdownLabels, expenseBreakdownValues, dashInflight>>

gqlVars == <<http>>

pageVars == <<page, pgLoading, pgError, pageDate, requests, lastStep,
              dialogOpen, pendingTarget,
              dashMe, dashPermissions, profitLoading, profitError, profitShown>>

usersVars == <<selectedUserId, permissionsOpen, permissionsLoading, permissions, permissionsOwner, usersError, usersRequests, sent>>

pagingVars == <<products, pageSize, pageIndex>>

shellVars == <<userMenuOpen, notificationsOpen, sidebarOpen, notificationsCount, shellRequests, shellStep>>

vars == <<permVars, profitVars, dateVars, invVars, dashVars, gqlVars, pageVars, usersVars, pagingVars, shellVars>>

\* what the steps of one part of the program leave alone
exceptPerm   == <<profitVars, dateVars, invVars, dashVars, gqlVars, pageVars, usersVars, pagingVars, shellVars>>
exceptProfit == <<permVars, dateVars, invVars, dashVars, gqlVars, pageVars, usersVars, pagingVars, shellVars>>
exceptDate   == <<permVars, profitVars, invVars, dashVars, gqlVars, pageVars, usersVars, pagingVars, shellVars>>
exceptInv    == <<permVars, profitVars, dateVars, dashVars, gqlVars, pageVars, usersVars, pagingVars, shellVars>>
exceptDash   == <<permVars, profitVars, dateVars, invVars, gqlVars, pageVars, usersVars, pagingVars, shellVars>>
exceptGql == <<permVars, profitVars, dateVars, invVars, dashVars, pageVars, usersVars, pagingVars, shellVars>>
exceptPage == <<permVars, profitVars, dateVars, invVars, dashVars, gqlVars, usersVars, pagingVars, shellVars>>
exceptUsers == <<permVars, profitVars, dateVars, invVars, dashVars, gqlVars, pageVars, pagingVars, shellVars>>
exceptProductsPage == <<permVars, profitVars, dateVars, invVars, dashVars, gqlVars, usersVars, shellVars>>
exceptPaging == <<permVars, profitVars, dateVars, invVars, dashVars, gqlVars, pageVars, usersVars, shellVars>>
exceptShell == <<permVars, profitVars, dateVars, invVars, dashVars, gqlVars, pageVars, usersVars, pagingVars>>

----------------------------------------------------------------------------
(* Bounds of the model *)

\* longest permission list a MyPermissions response carries
MaxPerms == 2
\* number of calls (load or reload) that issue requests
MaxLoads == 2
\* days of each month for which the profit page's fan-out is modelled
MaxDays == 2
\* longest list of expense records the server holds for the profit page
MaxExpenses == 2
\* largest number of days by which a date is shifted day by day
MaxShift == 3
\* longest item list of a daily sales report
MaxItems == 11
\* categories among the expense records of one day
MaxCategories == 8
\* calls of GraphqlService.request
MaxCalls == 2
\* requests of a page in flight beyond which the user waits
MaxInFlight == 2

\* profit loads that may be in flight together
MaxOverlap == 2

\* products a load returns
MaxProducts == 4

\* alerts a notification query returns
MaxAlerts == 1

----------------------------------------------------------------------------
(* Values *)

\* JavaScript null / undefined
Null == [tag |-> "null"]
Undefined == [tag |-> "undefined"]

\* Strings whose letter case matters are sequences of one-character strings.
SALES      == <<"S", "A", "L", "E", "S">>
Sales      == <<"S", "a", "l", "e", "s">>
sales      == <<"s", "a", "l", "e", "s">>
PURCHASING == <<"P", "U", "R", "C", "H", "A", "S", "I", "N", "G">>

LowerLetters == <<"a","b","c","d","e","f","g","h","i","j","k","l","m",
                  "n","o","p","q","r","s","t","u","v","w","x","y","z">>
UpperLetters == <<"A","B","C","D","E","F","G","H","I","J","K","L","M",
                  "N","O","P","Q","R","S","T","U","V","W","X","Y","Z">>

\* String.prototype.toUpperCase, character by character
toUpperCase(s) ==
    [i \in DOMAIN s |->
        IF \E k \in DOMAIN LowerLetters : LowerLetters[k] = s[i]
        THEN UpperLetters[CHOOSE k \in DOMAIN LowerLetters : LowerLetters[k] = s[i]]
        ELSE s[i]]

\* module values the server may store, and module names pages may query
StoredModules == {SALES, Sales}
QueryModules  == {SALES, Sales, sales, PURCHASING}

\* capability flag combinations carried by the modelled records
FlagSets == { <<FALSE, FALSE, FALSE, FALSE>>,
              <<TRUE,  FALSE, TRUE,  FALSE>> }

\* type UserPermission
UserPermission ==
    { [module |-> m, canView |-> f[1], canCreate |-> f[2], canEdit |-> f[3], canDelete |-> f[4]] :
        m \in StoredModules, f \in FlagSets }

\* sequences over S of length at most n
SeqUpTo(S, n) == UNION { [1..k -> S] : k \in 0..n }

\* type MeResult: me is null or a user with a role list
MeResult == { [me |-> u] : u \in { Null, [roles |-> {"ADMIN"}], [roles |-> {"STOREKEEPER"}] } }

\* type MyPermissionsResult: myPermissions is a list, or is missing from the response
MyPermissionsResult ==
    { [myPermissions |-> l] : l \in SeqUpTo(UserPermission, MaxPerms) } \cup { [data |-> "empty"] }

----------------------------------------------------------------------------
(* PermissionService: queries *)

\* readonly isAdmin = computed(() => (this.me()?.roles ?? []).includes('ADMIN'))
isAdminOf(user) == "ADMIN" \in (IF user = Null THEN {} ELSE user.roles)

isAdmin == isAdminOf(me)

\* Array.prototype.find: the first element satisfying P, else undefined
find(list, P(_)) ==
    IF \E i \in DOMAIN list : P(list[i])
    THEN list[CHOOSE i \in DOMAIN list : P(list[i]) /\ \A j \in 1..(i-1) : ~P(list[j])]
    ELSE Undefined

\* the last element satisfying P, else undefined
findLast(list, P(_)) ==
    IF \E i \in DOMAIN list : P(list[i])
    THEN list[CHOOSE i \in DOMAIN list : P(list[i]) /\ \A j \in (i+1)..Len(list) : ~P(list[j])]
    ELSE Undefined

\* Boolean(p?.key): false when p is undefined
optFlag(p, key) == IF p = Undefined THEN FALSE ELSE p[key]

permLast(module) ==
    LET want == toUpperCase(module)
        match(x) == x.module = want
    IN  findLast(myPermissions, match)

\* private perm(module): this.myPermissions().find((x) => x.module === module.toUpperCase())
perm(module) ==
    LET want == toUpperCase(module)
        match(x) == x.module = want
    IN  find(myPermissions, match)

canViewNoAdminCheck(module) == (optFlag(perm(module), "canView"))

canView(module) ==
    IF isAdmin THEN TRUE ELSE (optFlag(perm(module), "canView"))

canCreate(module) ==
    IF isAdmin THEN TRUE ELSE (optFlag(perm(module), "canCreate"))

canEdit(module) ==
    IF isAdmin THEN TRUE ELSE (optFlag(perm(module), "canEdit"))

canDeleteDefaultAllow(module) ==
    IF isAdmin THEN TRUE
    ELSE IF perm(module) = Undefined THEN TRUE ELSE perm(module).canDelete

canDelete(module) ==
    IF isAdmin THEN TRUE ELSE (optFlag(perm(module), "canDelete"))

\* DashboardPage.canView: the dashboard's own copy of the lookup, over its own
\* me / myPermissions signals (passed as user and perms)
DashboardPage_canView(user, perms, module) ==
    IF isAdminOf(user) THEN TRUE
    ELSE LET mod == toUpperCase(module)
             match(x) == toUpperCase(x.module) = mod
         IN  (optFlag(find(perms, match), "canView"))

----------------------------------------------------------------------------
(* PermissionService: load, reload and the response handlers *)

\* the two requests of load(): Me and MyPermissions, issued in the same call
issueRequests ==
    LET g == meFetches + 1 IN
    /\ meFetches < MaxLoads
    /\ loaded' = TRUE
    /\ pending' = pending \cup { [kind |-> "me", gen |-> g], [kind |-> "perm", gen |-> g] }
    /\ meFetches' = meFetches + 1
    /\ permFetches' = permFetches + 1
    /\ failed' = {}
    /\ firstChange' = FALSE
    /\ UNCHANGED <<me, myPermissions>>

loadNoGuard ==
    /\ issueRequests
    /\ UNCHANGED <<reloads, skipped>>

\* load(): if (this.loaded) return; this.loaded = true; issue both requests
load ==
    IF loaded
    THEN /\ skipped' = TRUE
         /\ UNCHANGED <<me, myPermissions, loaded, pending, meFetches, permFetches,
                         reloads, failed, firstChange>>
    ELSE /\ issueRequests
         /\ UNCHANGED <<reloads, skipped>>

\* reload(): this.loaded = false; this.load()
reload ==
    /\ issueRequests
    /\ reloads' = reloads + 1
    /\ UNCHANGED skipped

\* whether request r belongs to the latest load
latest(r) == r.gen = meFetches

\* whether the other request of r's load is still in flight
otherPending(r) == \E q \in pending : q.gen = r.gen /\ q.kind # r.kind

\* bookkeeping of a response to request r that writes `changed` to its signal
respond(r, isError, changed) ==
    /\ pending' = pending \ {r}
    /\ failed' = IF latest(r) /\ isError THEN failed \cup {r.kind} ELSE failed
    /\ firstChange' = IF latest(r) /\ otherPending(r) THEN changed ELSE firstChange
    /\ UNCHANGED <<loaded, meFetches, permFetches, reloads, skipped>>

\* Me subscription, next: (res) => this.me.set(res.me)
meNext(r, res) ==
    /\ r \in pending /\ r.kind = "me"
    /\ me' = res.me
    /\ respond(r, FALSE, res.me # me)
    /\ UNCHANGED myPermissions

\* Me subscription, error: () => this.me.set(null)
meError(r) ==
    /\ r \in pending /\ r.kind = "me"
    /\ me' = Null
    /\ respond(r, TRUE, Null # me)
    /\ UNCHANGED myPermissions

\* MyPermissions subscription, next: (res) => this.myPermissions.set(res.myPermissions ?? [])
permNext(r, res) ==
    LET list == IF "myPermissions" \in DOMAIN res THEN res.myPermissions ELSE <<>> IN
    /\ r \in pending /\ r.kind = "perm"
    /\ myPermissions' = list
    /\ respond(r, FALSE, list # myPermissions)
    /\ UNCHANGED me

\* MyPermissions subscription, error: () => this.myPermissions.set([])
permError(r) ==
    /\ r \in pending /\ r.kind = "perm"
    /\ myPermissions' = <<>>
    /\ respond(r, TRUE, <<>> # myPermissions)
    /\ UNCHANGED me

\* state after construction of the service
PermInit ==
    /\ me = Null
    /\ myPermissions = <<>>
    /\ loaded = FALSE
    /\ pending = {}
    /\ meFetches = 0
    /\ permFetches = 0
    /\ reloads = 0
    /\ skipped = FALSE
    /\ failed = {}
    /\ firstChange = FALSE

----------------------------------------------------------------------------
(* ProfitManagementPage: dates and rows.  An ISO date string YYYY-MM-DD is   *)
(* the tuple <<year, month, day>> of its zero-padded fields, so that string  *)
(* equality and order are tuple equality and lexicographic order.            *)

Min(a, b) == IF a < b THEN a ELSE b

\* a < b for date strings
dateLess(a, b) ==
    \/ a[1] < b[1]
    \/ a[1] = b[1] /\ a[2] < b[2]
    \/ a[1] = b[1] /\ a[2] = b[2] /\ a[3] < b[3]

\* a <= b for date strings
dateLeq(a, b) == a = b \/ dateLess(a, b)

Max(a, b) == IF a > b THEN a ELSE b

\* JavaScript Date: a time value is counted here in whole days since
\* 1970-01-01 (every Date of the program is a midnight).
\* ECMAScript DayFromYear(y): the day number of January 1st of year y
DayFromYear(y) ==
    365 * (y - 1970) + ((y - 1969) \div 4) - ((y - 1901) \div 100) + ((y - 1601) \div 400)

\* ECMAScript InLeapYear
InLeapYear(y) == DayFromYear(y + 1) - DayFromYear(y) = 366

\* days of year y before the month with index m0 (0 = January, 12 = end of year)
DaysBeforeMonth(y, m0) ==
    <<0, 31, 59, 90, 120, 151, 181, 212, 243, 273, 304, 334, 365>>[m0 + 1]
        + (IF InLeapYear(y) /\ m0 >= 2 THEN 1 ELSE 0)

\* ECMAScript MakeDay(year, month, date): month index and date may lie outside
\* their ranges and carry over into the neighbouring months and years
MakeDay(year, monthIndex, date) ==
    LET ym == year + (monthIndex \div 12)
        mn == monthIndex % 12
    IN  DayFromYear(ym) + DaysBeforeMonth(ym, mn) + date - 1

\* ECMAScript YearFromTime
YearFromDay(t) ==
    LET lo == 1970 + Min(t \div 365, t \div 366) - 1
        hi == 1970 + Max(t \div 365, t \div 366) + 1
    IN  CHOOSE y \in lo..hi : DayFromYear(y) <= t /\ t < DayFromYear(y + 1)

\* getFullYear / getMonth() + 1 / getDate of the Date with day number t
dateFields(t) ==
    LET y  == YearFromDay(t)
        n  == t - DayFromYear(y)
        m0 == CHOOSE m \in 0..11 : DaysBeforeMonth(y, m) <= n /\ n < DaysBeforeMonth(y, m + 1)
    IN  <<y, m0 + 1, n - DaysBeforeMonth(y, m0) + 1>>

\* new Date(year, monthIndex, date): years 0..99 mean 1900..1999
newDate(year, monthIndex, date) ==
    MakeDay(IF year \in 0..99 THEN 1900 + year ELSE year, monthIndex, date)

\* toIsoDate(value): `${yyyy}-${mm}-${dd}` of the Date's fields
toIsoDate(value) == dateFields(value)

\* endOfMonth(year, month1to12): toIsoDate(new Date(year, month1to12, 0))
endOfMonth(year, month1to12) == toIsoDate(newDate(year, month1to12, 0))

daysInMonthJulian(year, month1to12) ==
    IF month1to12 = 2 THEN (IF year % 4 = 0 THEN 29 ELSE 28)
    ELSE IF month1to12 \in {4, 6, 9, 11} THEN 30 ELSE 31

\* daysInMonth: new Date(year, month1to12, 0).getDate()
daysInMonth(year, month1to12) == dateFields(newDate(year, month1to12, 0))[3]

\* new Date(`${dateIso}T00:00:00Z`): the day number of a valid date string
parseUtc(dateIso) == MakeDay(dateIso[1], dateIso[2] - 1, dateIso[3])

addDaysIsoSameMonth(dateIso, days) == <<dateIso[1], dateIso[2], dateIso[3] + days>>

\* addDaysIso(dateIso, days): d.setUTCDate(d.getUTCDate() + days), then the
\* zero-padded UTC fields
addDaysIso(dateIso, days) ==
    LET f == dateFields(parseUtc(dateIso))
    IN  dateFields(MakeDay(f[1], f[2] - 1, f[3] + days))

\* months of a year row set: Array.from({ length: 12 })
MonthsPerYear == 12

\* A load issues one request per day.  The requests for the first MaxDays days
\* of January and February complete one by one, in any order; the requests
\* for all other days complete together, in one step, and forkJoin hands
\* their responses on at their own positions.
modelMonths == { m \in 1..MonthsPerYear : m \in {1, 2} }
modelDays(year, month) == 1..Min(daysInMonth(year, month), MaxDays)

\* a row as buildMonthRows / buildYearRows make it
emptyRow(label, from, to) ==
    [label |-> label, from |-> from, to |-> to, grossProfit |-> 0, expenses |-> 0, netProfit |-> 0]

\* buildMonthRows(year, month1to12): one row per day
buildMonthRows(year, month1to12) ==
    [idx \in 1..daysInMonth(year, month1to12) |->
        LET date == <<year, month1to12, idx>> IN emptyRow(date, date, date)]

buildYearRowsTo28(year) ==
    [month \in 1..MonthsPerYear |->
        emptyRow(<<year, month>>, <<year, month, 1>>, <<year, month, 28>>)]

\* buildYearRows(year): one row per month, from the 1st to the last day
buildYearRows(year) ==
    [month \in 1..MonthsPerYear |->
        emptyRow(<<year, month>>, <<year, month, 1>>, <<year, month, daysInMonth(year, month)>>)]

\* the sum of a sequence of numbers, left to right
RECURSIVE sum(_)
sum(ns) == IF ns = <<>> THEN 0 ELSE sum(SubSeq(ns, 1, Len(ns) - 1)) + ns[Len(ns)]

\* list.reduce((s, e) => s + f(e), 0)
reduceSum(list, f(_)) == sum([i \in DOMAIN list |-> f(list[i])])

\* list.filter(P)
filter(list, P(_)) == SelectSeq(list, P)

grossOfRow(r) == r.grossProfit
expensesOfRow(r) == r.expenses
netOfRow(r) == r.netProfit
amountOf(e) == e.amount

\* computed totals over rows
totalGrossProfit == reduceSum(rows, grossOfRow)
totalExpenses    == reduceSum(rows, expensesOfRow)
totalNetProfit   == reduceSum(rows, netOfRow)

----------------------------------------------------------------------------
(* ProfitManagementPage: the server *)

Today == <<2024, 1, 1>>
EmptyDate == <<>>

\* dates for which the server has a daily report: the first MaxDays days and
\* the last day of every month of 2024
ReportDates ==
    { <<2024, m, d>> : m \in 1..MonthsPerYear, d \in 1..MaxDays }
    \cup { <<2024, m, daysInMonth(2024, m)>> : m \in 1..MonthsPerYear }

\* the server's reports: a distinct profit per date, with at most one date lacking a report
ReportDbs ==
    { [d \in ReportDates |->
          IF d = gap THEN Null ELSE [totalProfitAmount |-> 10 * d[2] + d[3]]] :
      gap \in { EmptyDate, <<2024, 1, 2>> } }

\* type Expense (id and category left out)
Expense ==
    { [date |-> <<2024, 1, 1>>, amount |-> 3],
      [date |-> <<2024, 2, 29>>, amount |-> 5],
      [date |-> <<2023, 12, 31>>, amount |-> 7] }

\* response to dailySalesReport(date): null for a date without a report
dailySalesReport(date) ==
    [dailySalesReport |-> IF date \in DOMAIN reports THEN reports[date] ELSE Null]

\* response to expenses(filter: {from, to}): the records in range when the
\* server applies the filter, all records when it does not
expensesQuery(from, to, filtered) ==
    LET inRange(e) == dateLeq(from, e.date) /\ dateLeq(e.date, to)
    IN  [expenses |-> IF filtered THEN filter(expensesDb, inRange) ELSE expensesDb]

----------------------------------------------------------------------------
(* ProfitManagementPage.load and its subscriptions *)

Pending == [tag |-> "pending"]

\* key of the expenses request; daily requests have keys <<group, index>>
ExpensesKey == <<0, 0>>

\* stands for the daily requests that complete together
RestKey == <<0, 1>>

\* the daily requests a load issues
dailyKeys(f) ==
    CASE f.mode = "DAY"   -> { <<1, 1>> }
      [] f.mode = "MONTH" -> { <<1, d>> : d \in 1..daysInMonth(f.year, f.month) }
      [] f.mode = "YEAR"  ->
            UNION { { <<m, d>> : d \in 1..daysInMonth(f.year, m) } : m \in 1..MonthsPerYear }

\* the daily requests that complete one by one
soloKeys(f) ==
    CASE f.mode = "DAY"   -> { <<1, 1>> }
      [] f.mode = "MONTH" -> { <<1, d>> : d \in modelDays(f.year, f.month) }
      [] f.mode = "YEAR"  -> UNION { { <<m, d>> : d \in modelDays(f.year, m) } : m \in modelMonths }

\* what a load waits for
requestKeys(f) ==
    soloKeys(f) \cup (IF f.mode = "DAY" THEN {} ELSE {RestKey}) \cup {ExpensesKey}

\* the date a daily request asks for
dateOfKey(f, key) ==
    CASE f.mode = "DAY"   -> f.date
      [] f.mode = "MONTH" -> <<f.year, f.month, key[2]>>
      [] f.mode = "YEAR"  -> <<f.year, key[1], key[2]>>

\* whether the form's values pass load's checks for its mode
validForm(f) ==
    CASE f.mode = "DAY"   -> f.date # EmptyDate
      [] f.mode = "MONTH" -> ~(f.year = 0 \/ f.month = 0 \/ f.month < 1 \/ f.month > 12)
      [] f.mode = "YEAR"  -> f.year # 0

\* the forms the user submits: per mode, the fields that mode reads vary
Forms ==
    { [mode |-> "DAY", date |-> d, month |-> 1, year |-> 2024] : d \in {Today, <<2024, 1, 2>>, EmptyDate} }
    \cup { [mode |-> "MONTH", date |-> Today, month |-> m, year |-> y] : m \in {1, 2, 13}, y \in {2024, 0} }
    \cup { [mode |-> "YEAR", date |-> Today, month |-> 1, year |-> y] : y \in {2024, 0} }

\* a load in flight: the form values it captured and what forkJoin holds
newLoad(f, id) ==
    [id |-> id, form |-> f,
     waiting |-> requestKeys(f),
     daily |-> [k \in soloKeys(f) |-> Pending],
     expenses |-> Pending,
     reordered |-> FALSE]

\* Number(x?.dailySalesReport?.totalProfitAmount ?? 0)
grossOf(res) ==
    IF res.dailySalesReport = Null THEN 0 ELSE res.dailySalesReport.totalProfitAmount

\* { ...r, grossProfit: gross, expenses: expTotal, netProfit: gross - expTotal }
mappedRowNoExpenses(r, gross, expTotal) ==
    [r EXCEPT !.grossProfit = gross, !.expenses = expTotal, !.netProfit = gross]

mappedRow(r, gross, expTotal) ==
    [r EXCEPT !.grossProfit = gross, !.expenses = expTotal, !.netProfit = gross - expTotal]

\* what forkJoin hands on at the position of daily request key
dailyAt(L, key) ==
    IF key \in DOMAIN L.daily THEN L.daily[key]
    ELSE dailySalesReport(dateOfKey(L.form, key))

\* the rows the next handler of load L sets
mapped(L) ==
    LET f == L.form
        expList == L.expenses.expenses
    IN  CASE f.mode = "DAY" ->
               LET gross == grossOf(dailyAt(L, <<1, 1>>))
                   expTotal == reduceSum(expList, amountOf)
               IN  << [label |-> f.date, from |-> f.date, to |-> f.date,
                       grossProfit |-> gross, expenses |-> expTotal,
                       netProfit |-> gross - expTotal] >>
          [] f.mode = "MONTH" ->
               LET built == buildMonthRows(f.year, f.month) IN
               [idx \in DOMAIN built |->
                   LET r == built[idx]
                       onDay(e) == e.date = r.from
                   IN  mappedRow(r, grossOf(dailyAt(L, <<1, idx>>)),
                                 reduceSum(filter(expList, onDay), amountOf))]
          [] f.mode = "YEAR" ->
               LET built == buildYearRows(f.year) IN
               [idx \in DOMAIN built |->
                   LET r == built[idx]
                       perMonth == [k \in 1..r.to[3] |-> dailyAt(L, <<idx, k>>)]
                       inMonth(e) == dateLeq(r.from, e.date) /\ dateLeq(e.date, r.to)
                   IN  mappedRow(r, reduceSum(perMonth, grossOf),
                                 reduceSum(filter(expList, inMonth), amountOf))]

\* a < b for request keys, in the order the requests were issued
keyLess(a, b) == a[1] < b[1] \/ (a[1] = b[1] /\ a[2] < b[2])

\* forkJoin keeps each source's value at the source's own position
collectByArrival(buf, key, v) ==
    LET free == { k \in DOMAIN buf : buf[k] = Pending }
        first == CHOOSE k \in free : \A j \in free : j = k \/ keyLess(k, j)
    IN  [buf EXCEPT ![first] = v]

collect(buf, key, v) == [buf EXCEPT ![key] = v]

\* forkJoin emits once every request has completed: the next handler runs,
\* rows.set(mapped); loading.set(false)
settle(L, M) ==
    IF M.waiting = {}
    THEN /\ rows' = mapped(M)
         /\ loading' = FALSE
         /\ reordered' = M.reordered
         /\ inflight' = inflight \ {L}
    ELSE /\ inflight' = (inflight \ {L}) \cup {M}
         /\ UNCHANGED <<rows, loading, reordered>>

loadCancelsPrevious(f) ==
    /\ form' = f
    /\ error' = Null
    /\ IF validForm(f)
       THEN /\ loading' = TRUE
            /\ inflight' = { newLoad(f, CHOOSE i \in 1..(Cardinality(inflight) + 1) :
                                          \A L \in inflight : L.id # i) }
            /\ UNCHANGED <<rows, reordered>>
       ELSE /\ rows' = <<>>
            /\ loading' = FALSE
            /\ reordered' = FALSE
            /\ UNCHANGED inflight
    /\ UNCHANGED <<reports, expensesDb>>

\* load(): loading.set(true); error.set(null); read the form; per mode either
\* clear rows and return, or issue the daily requests and the expenses request
ProfitManagementPage_load(f) ==
    /\ form' = f
    /\ error' = Null
    /\ IF validForm(f)
       THEN /\ loading' = TRUE
            /\ inflight' = inflight \cup
                 { newLoad(f, CHOOSE i \in 1..(Cardinality(inflight) + 1) :
                                 \A L \in inflight : L.id # i) }
            /\ UNCHANGED <<rows, reordered>>
       ELSE /\ rows' = <<>>
            /\ loading' = FALSE
            /\ reordered' = FALSE
            /\ UNCHANGED inflight
    /\ UNCHANGED <<reports, expensesDb>>

\* a dailySalesReport request of load L completes (for RestKey: all the
\* requests that complete together)
dailyNext(L, key) ==
    /\ L \in inflight /\ key \in L.waiting /\ key # ExpensesKey
    /\ settle(L, [L EXCEPT !.waiting = @ \ {key},
                           !.daily = IF key = RestKey THEN @
                                     ELSE collect(@, key, dailySalesReport(dateOfKey(L.form, key))),
                           !.reordered = @ \/ \E k \in L.waiting \ {ExpensesKey, RestKey} :
                                                 key # RestKey /\ keyLess(k, key)])
    /\ UNCHANGED <<error, form, reports, expensesDb>>

\* the filter of the expenses request: the day, or rows[0].from and rows[rows.length - 1].to
expensesRange(f) ==
    LET built == IF f.mode = "MONTH" THEN buildMonthRows(f.year, f.month)
                                     ELSE buildYearRows(f.year)
    IN  IF f.mode = "DAY" THEN <<f.date, f.date>>
        ELSE <<built[1].from, built[Len(built)].to>>

\* the expenses request of load L completes
expensesNext(L, filtered) ==
    LET range == expensesRange(L.form) IN
    /\ L \in inflight /\ ExpensesKey \in L.waiting
    /\ settle(L, [L EXCEPT !.waiting = @ \ {ExpensesKey},
                           !.expenses = expensesQuery(range[1], range[2], filtered)])
    /\ UNCHANGED <<error, form, reports, expensesDb>>

\* default message of a mode's error handler
failedToLoad(mode) ==
    CASE mode = "DAY"   -> "Failed to load profit"
      [] mode = "MONTH" -> "Failed to load monthly profit"
      [] mode = "YEAR"  -> "Failed to load yearly profit"

requestErrorClearsRows(L, key, e) ==
    /\ L \in inflight /\ key \in L.waiting
    /\ error' = [message |-> IF e.isError THEN e.message ELSE failedToLoad(L.form.mode)]
    /\ loading' = FALSE
    /\ inflight' = inflight \ {L}
    /\ rows' = <<>>
    /\ UNCHANGED <<form, reports, expensesDb, reordered>>

\* a request of load L fails: forkJoin errors at once and drops the others;
\* error.set(e instanceof Error ? e.message : default); loading.set(false)
requestError(L, key, e) ==
    /\ L \in inflight /\ key \in L.waiting
    /\ error' = [message |-> IF e.isError THEN e.message ELSE failedToLoad(L.form.mode)]
    /\ loading' = FALSE
    /\ inflight' = inflight \ {L}
    /\ UNCHANGED <<rows, form, reports, expensesDb, reordered>>

\* what a failed request throws: an Error made by GraphqlService, or an HTTP error response
Failures == { [isError |-> TRUE, message |-> "No data returned from GraphQL"],
              [isError |-> FALSE, message |-> "Http failure response"] }

\* state after construction: the constructor has called load() with the form's defaults
ProfitInit ==
    /\ form = [mode |-> "DAY", date |-> Today, month |-> 1, year |-> 2024]
    /\ rows = <<>>
    /\ loading = TRUE
    /\ error = Null
    /\ inflight = { newLoad(form, 1) }
    /\ reordered = FALSE
    /\ reports \in ReportDbs
    /\ expensesDb \in SeqUpTo(Expense, MaxExpenses)

----------------------------------------------------------------------------
(* The date helpers as functions of their arguments *)

\* the dates and day counts the helpers are called with
IsoDates ==
    { <<2024, 2, 28>>, <<2024, 2, 29>>, <<2023, 2, 28>>, <<2023, 12, 31>>, <<2024, 12, 31>>,
      <<2024, 1, 1>>, <<2024, 3, 1>>, <<2000, 2, 28>>, <<1900, 2, 28>>, <<2100, 2, 28>>,
      <<2024, 5, 7>>, <<2024, 4, 30>> }

Shifts == (-MaxShift..MaxShift) \cup { -366, -59, 59, 366 }

Years == { 1900, 2000, 2023, 2024, 2100 }

\* a call addDaysIso(d, a), its result shifted by b, and the shift by a + b at once
callAddDaysIso(d, a, b) ==
    /\ calc' = [op |-> "addDaysIso", date |-> d, a |-> a, b |-> b,
                first |-> addDaysIso(d, a),
                second |-> addDaysIso(addDaysIso(d, a), b),
                atOnce |-> addDaysIso(d, a + b)]
    /\ UNCHANGED exceptDate

\* a MONTH load of the profit page for (year, month) whose requests have all completed
completedLoad(f) ==
    LET L == newLoad(f, 1)
        range == expensesRange(f)
    IN  [L EXCEPT !.waiting = {},
                  !.daily = [k \in DOMAIN @ |-> dailySalesReport(dateOfKey(f, k))],
                  !.expenses = expensesQuery(range[1], range[2], TRUE)]

\* the month aggregation for (year, month), next to endOfMonth and daysInMonth
callMonthAggregation(year, month) ==
    LET f == [mode |-> "MONTH", date |-> Today, month |-> month, year |-> year] IN
    /\ validForm(f)
    /\ calc' = [op |-> "month", year |-> year, month |-> month,
                rows |-> mapped(completedLoad(f)),
                days |-> daysInMonth(year, month),
                last |-> endOfMonth(year, month)]
    /\ UNCHANGED exceptDate

----------------------------------------------------------------------------
(* InventoryPage: the status of an inventory item.  A Date of this page is   *)
(* a local midnight, counted in days since 1970-01-01 of the local calendar. *)

\* the months added to today for the near-expiry limit: this.addMonths(today, 3)
NearExpiryMonths == 3

\* An expiryDate string: `spaces` blanks around a text that is empty, a date
\* YYYY-MM-DD, or something else.
emptyString == [spaces |-> 0, text |-> "", date |-> EmptyDate]
blankString == [spaces |-> 2, text |-> "", date |-> EmptyDate]
otherString == [spaces |-> 0, text |-> "n/a", date |-> EmptyDate]
dateString(d, n) == [spaces |-> n, text |-> "date", date |-> d]

\* String.prototype.trim
trim(value) == [value EXCEPT !.spaces = 0]

\* startOfDay(d): the midnight of d's local date; every Date here is one already
startOfDay(d) == d

\* startOfDay(new Date(0)): the local date of the instant 1970-01-01T00:00Z
epochDay == startOfDay(IF tzWest THEN -1 ELSE 0)

\* startOfDay(new Date())
todayDay == startOfDay(MakeDay(today[1], today[2] - 1, today[3]))

\* whether new Date(`${trimmed}T00:00:00`) is a valid Date
parsable(trimmed) ==
    /\ trimmed.text = "date" /\ trimmed.spaces = 0
    /\ trimmed.date[2] \in 1..12
    /\ trimmed.date[3] \in 1..daysInMonth(trimmed.date[1], trimmed.date[2])

parseDateOnlyAsToday(value) ==
    LET trimmed == trim(IF value = Null THEN emptyString ELSE value) IN
    IF parsable(trimmed)
    THEN startOfDay(MakeDay(trimmed.date[1], trimmed.date[2] - 1, trimmed.date[3]))
    ELSE todayDay

\* parseDateOnly(value)
parseDateOnly(value) ==
    LET trimmed == trim(IF value = Null THEN emptyString ELSE value) IN
    IF trimmed.text = "" THEN epochDay
    ELSE IF ~parsable(trimmed) THEN epochDay
    ELSE startOfDay(MakeDay(trimmed.date[1], trimmed.date[2] - 1, trimmed.date[3]))

\* addMonths(d, months): copy.setMonth(copy.getMonth() + months)
addMonths(d, months) ==
    LET f == dateFields(d)
    IN  startOfDay(MakeDay(f[1], f[2] - 1 + months, f[3]))

statusLabelExpiryFirst(i) ==
    LET expiry == parseDateOnly(i.expiryDate)
        nearExpiryLimit == addMonths(todayDay, NearExpiryMonths)
    IN  IF expiry < todayDay THEN "Expired"
        ELSE IF i.qtyOnHand <= 0 THEN "Out of stock"
        ELSE IF expiry <= nearExpiryLimit THEN "Near expiry"
        ELSE "Sell allowed"

\* statusLabel(i)
statusLabel(i) ==
    IF i.qtyOnHand <= 0 THEN "Out of stock"
    ELSE LET expiry == parseDateOnly(i.expiryDate)
             nearExpiryLimit == addMonths(todayDay, NearExpiryMonths)
         IN  IF expiry < todayDay THEN "Expired"
             ELSE IF expiry <= nearExpiryLimit THEN "Near expiry"
             ELSE "Sell allowed"

\* the days on which the page is opened
Todays ==
    { <<2024, 1, 31>>, <<2024, 5, 15>>, <<2024, 11, 30>>, <<2023, 11, 30>>,
      <<2024, 2, 29>>, <<2024, 12, 31>>, <<2024, 3, 31>> }

\* expiry dates around today and around the near-expiry limit, and far ones
ExpiryDates ==
    { dateFields(todayDay + k) : k \in {-1, 0, 1} }
    \cup { dateFields(addMonths(todayDay, NearExpiryMonths) + k) : k \in -3..1 }
    \cup { <<1970, 1, 1>>, <<2030, 6, 30>>, <<2024, 13, 45>> }

\* the inventory items the page shows
InventoryItem ==
    { [qtyOnHand |-> q, expiryDate |-> e] :
        q \in {-1, 0, 1},
        e \in { dateString(d, 0) : d \in ExpiryDates }
               \cup { dateString(dateFields(todayDay + 1), 1),
                      emptyString, blankString, otherString, Null } }

\* the template asks for the status of item i
InventoryPage_statusLabel(i) ==
    /\ item' = i
    /\ status' = statusLabel(i)
    /\ UNCHANGED <<today, tzWest>>
    /\ UNCHANGED exceptInv

InvInit ==
    /\ today \in Todays /\ tzWest \in BOOLEAN
    /\ item = Null /\ status = Null

----------------------------------------------------------------------------
(* ProfitDashboardPage: the figures of the selected day, the profit of the   *)
(* last 7 days and the top products                                          *)

\* the days of the series: Array.from({ length: 7 })
Last7 == 7

\* the products kept: .slice(0, 10)
TopN == 10

\* key of the request for the selected day's report; the requests of the
\* series have keys <<1, index>>
DailyKey == <<0, 2>>

last7DatesForward(date) == [i \in 1..Last7 |-> addDaysIso(date, i - 1)]

\* last7Dates: Array.from({ length: 7 }).map((_, i) => this.addDaysIso(date, i - 6))
last7Dates(date) == [i \in 1..Last7 |-> addDaysIso(date, (i - 1) - 6)]

\* the requests of the series that complete one by one; the others complete together
last7Solo == { <<1, i>> : i \in 1..Min(Last7, MaxDays) }

\* a load of the dashboard in flight
newDashLoad(date, id) ==
    [id |-> id, date |-> date, last7Dates |-> last7Dates(date),
     waiting |-> {DailyKey, ExpensesKey, RestKey} \cup last7Solo,
     daily |-> Pending, expenses |-> Pending,
     last7 |-> [k \in last7Solo |-> Pending]]

\* what forkJoin(last7DailyReqs) hands on at index idx
last7At(L, idx) ==
    IF <<1, idx>> \in DOMAIN L.last7 THEN L.last7[<<1, idx>>]
    ELSE dailySalesReport(L.last7Dates[idx])

quantityOf(x) == x.quantitySold

\* [...items].sort((a, b) => Number(b.quantitySold ?? 0) - Number(a.quantitySold ?? 0)):
\* the sort is stable, so an element goes behind every earlier element that
\* the comparison does not put after it
RECURSIVE sortByQuantitySold(_)
sortByQuantitySold(list) ==
    IF list = <<>> THEN <<>>
    ELSE LET front == sortByQuantitySold(SubSeq(list, 1, Len(list) - 1))
             x == list[Len(list)]
             k == Cardinality({ i \in DOMAIN front : quantityOf(x) - quantityOf(front[i]) <= 0 })
         IN  SubSeq(front, 1, k) \o <<x>> \o SubSeq(front, k + 1, Len(front))

\* list.slice(0, n)
slice0(list, n) == SubSeq(list, 1, Min(n, Len(list)))

topUnsorted(report) ==
    slice0(IF report = Null THEN <<>> ELSE report.items, TopN)

\* top: [...(report?.items ?? [])].sort(...).slice(0, 10)
top(report) ==
    slice0(sortByQuantitySold(IF report = Null THEN <<>> ELSE report.items), TopN)

\* the groups kept: .slice(0, 7)
BreakdownN == 7

\* String(e.category?.name ?? 'Other')
categoryName(e) == IF e.category = Null THEN "Other" ELSE e.category.name

\* Array.from(breakdown.entries()): a Map lists its keys in the order of their
\* first insertion; the value of a key is the sum of the amounts set under it
breakdownEntries(expensesForDay) ==
    LET name(i) == categoryName(expensesForDay[i])
        isFirst(i) == \A j \in 1..(i - 1) : name(j) # name(i)
        firsts == SelectSeq([i \in DOMAIN expensesForDay |-> i], isFirst)
        total(n) == LET named(x) == categoryName(x) = n
                    IN  reduceSum(filter(expensesForDay, named), amountOf)
    IN  [k \in DOMAIN firsts |-> <<name(firsts[k]), total(name(firsts[k]))>>]

\* entries.sort((a, b) => b[1] - a[1]): stable, by value, largest first
RECURSIVE sortByValue(_)
sortByValue(entries) ==
    IF entries = <<>> THEN <<>>
    ELSE LET front == sortByValue(SubSeq(entries, 1, Len(entries) - 1))
             x == entries[Len(entries)]
             k == Cardinality({ i \in DOMAIN front : x[2] - front[i][2] <= 0 })
         IN  SubSeq(front, 1, k) \o <<x>> \o SubSeq(front, k + 1, Len(front))

breakdownUnsorted(expensesForDay) ==
    slice0(breakdownEntries(expensesForDay), BreakdownN)

\* breakdownSorted: Array.from(breakdown.entries()).sort(...).slice(0, 7)
breakdownSorted(expensesForDay) ==
    slice0(sortByValue(breakdownEntries(expensesForDay)), BreakdownN)

\* the sum of the amounts of the records of expList dated d
expTotalOn(expList, d) ==
    LET onDay(e) == e.date = d IN reduceSum(filter(expList, onDay), amountOf)

\* forkJoin emits once every request has completed: the next handler runs
dashSettle(L, M) ==
    IF M.waiting = {}
    THEN LET report == M.daily.dailySalesReport
             expList == M.expenses.expenses
             shown == top(report)
             onDay(x) == x.date = M.date
             groups == breakdownSorted(filter(expList, onDay))
         IN  /\ grossProfit' = (IF report = Null THEN 0 ELSE report.totalProfitAmount)
             /\ expensesToday' = expTotalOn(expList, M.date)
             /\ expenseBreakdownLabels' = [i \in DOMAIN groups |-> groups[i][1]]
             /\ expenseBreakdownValues' = [i \in DOMAIN groups |-> groups[i][2]]
             /\ topProductsLabels' = [i \in DOMAIN shown |-> shown[i].productName]
             /\ topProductsQty' = [i \in DOMAIN shown |-> quantityOf(shown[i])]
             /\ profit7DaysLabels' = M.last7Dates
             /\ profit7DaysData' =
                    [idx \in 1..Last7 |->
                        grossOf(last7At(M, idx)) - expTotalOn(expList, M.last7Dates[idx])]
             /\ dashLoading' = FALSE
             /\ dashInflight' = dashInflight \ {L}
    ELSE /\ dashInflight' = (dashInflight \ {L}) \cup {M}
         /\ UNCHANGED <<grossProfit, expensesToday, topProductsLabels, topProductsQty,
                         expenseBreakdownLabels, expenseBreakdownValues,
                         profit7DaysLabels, profit7DaysData, dashLoading>>

\* load(): loading.set(true); error.set(null); without a date stop, else
\* issue the day's request, the expenses request and the 7 requests of the series
ProfitDashboardPage_load(date) ==
    /\ selectedDate' = date
    /\ dashError' = Null
    /\ IF date = EmptyDate
       THEN dashLoading' = FALSE /\ UNCHANGED dashInflight
       ELSE /\ dashLoading' = TRUE
            /\ dashInflight' = dashInflight \cup
                 { newDashLoad(date, CHOOSE i \in 1..(Cardinality(dashInflight) + 1) :
                                        \A L \in dashInflight : L.id # i) }
    /\ UNCHANGED <<grossProfit, expensesToday, topProductsLabels, topProductsQty,
                    expenseBreakdownLabels, expenseBreakdownValues,
                    profit7DaysLabels, profit7DaysData>>
    /\ UNCHANGED exceptDash

\* the request for the selected day's report completes
dashDailyNext(L) ==
    /\ L \in dashInflight /\ DailyKey \in L.waiting
    /\ dashSettle(L, [L EXCEPT !.waiting = @ \ {DailyKey},
                               !.daily = dailySalesReport(L.date)])
    /\ UNCHANGED <<selectedDate, dashError>>
    /\ UNCHANGED exceptDash

\* the expenses request (filter from7..to7) completes
dashExpensesNext(L, filtered) ==
    /\ L \in dashInflight /\ ExpensesKey \in L.waiting
    /\ dashSettle(L, [L EXCEPT !.waiting = @ \ {ExpensesKey},
                               !.expenses = expensesQuery(addDaysIso(L.date, -6),
                                                          addDaysIso(L.date, 0), filtered)])
    /\ UNCHANGED <<selectedDate, dashError>>
    /\ UNCHANGED exceptDash

\* a request of the series completes (for RestKey: those that complete together)
dashLast7Next(L, key) ==
    /\ L \in dashInflight /\ key \in L.waiting /\ key \in last7Solo \cup {RestKey}
    /\ dashSettle(L, [L EXCEPT !.waiting = @ \ {key},
                               !.last7 = IF key = RestKey THEN @
                                         ELSE collect(@, key, dailySalesReport(L.last7Dates[key[2]]))])
    /\ UNCHANGED <<selectedDate, dashError>>
    /\ UNCHANGED exceptDash

\* a request of load L fails: error.set(message); loading.set(false)
dashRequestError(L, key, e) ==
    /\ L \in dashInflight /\ key \in L.waiting
    /\ dashError' = [message |-> IF e.isError THEN e.message
                                              ELSE "Failed to load profit dashboard"]
    /\ dashLoading' = FALSE
    /\ dashInflight' = dashInflight \ {L}
    /\ UNCHANGED <<selectedDate, grossProfit, expensesToday, topProductsLabels,
                    topProductsQty, expenseBreakdownLabels, expenseBreakdownValues,
                    profit7DaysLabels, profit7DaysData>>
    /\ UNCHANGED exceptDash

\* the dates the user selects
SelectedDates == { <<2024, 5, 7>>, <<2024, 3, 2>>, <<2024, 1, 3>>, EmptyDate }

\* item lists of a report: the product name is the item's place in the list,
\* the quantities repeat with period 3 or are all equal
ItemLists ==
    { [i \in 1..n |-> [productName |-> i,
                       quantitySold |-> IF k = 0 THEN 5 ELSE (i * k) % 3]] :
        n \in {0, 3, MaxItems}, k \in {0, 1, 2} }

\* the server's reports for the dashboard: none for 2024-05-04 and 2024-01-03
DashReportDbs ==
    { [d \in { <<2024, 5, 1>>, <<2024, 5, 2>>, <<2024, 5, 3>>, <<2024, 5, 5>>, <<2024, 5, 6>>,
               <<2024, 5, 7>>, <<2024, 2, 29>>, <<2024, 3, 1>>, <<2024, 3, 2>>,
               <<2023, 12, 31>>, <<2024, 1, 2>> } |->
          [totalProfitAmount |->
              CASE d = <<2024, 5, 1>> -> 10 [] d = <<2024, 5, 2>> -> 20 [] d = <<2024, 5, 3>> -> 15
                [] d = <<2024, 5, 5>> -> 5  [] d = <<2024, 5, 6>> -> 30 [] d = <<2024, 5, 7>> -> 12
                [] OTHER -> d[2] + d[3],
           items |-> IF d \in SelectedDates THEN its ELSE <<>>]] :
      its \in ItemLists }

\* names of expense categories
CategoryNames == <<"Rent", "Fuel", "Salaries", "Water", "Power", "Repairs", "Taxes",
                   "Transport", "Airtime", "Other">>

\* an expense record; without a name its category is null
expense(date, name, amount) ==
    [date |-> date, amount |-> amount,
     category |-> IF name = "" THEN Null ELSE [name |-> name]]

\* the server's expense records for the dashboard: on 2024-05-07 the records
\* of the fifth list fall into 3 groups and those of the last into
\* MaxCategories groups of values 1..5, one of them without a category
DashExpenseDbs ==
    { <<>>,
      << expense(<<2024, 5, 3>>, "Rent", 8) >>,
      << expense(<<2024, 5, 3>>, "", 5), expense(<<2024, 5, 7>>, "Fuel", 2),
         expense(<<2024, 5, 3>>, "Rent", 3) >>,
      << expense(<<2024, 2, 29>>, "Rent", 1), expense(<<2023, 12, 31>>, "", 2),
         expense(<<2024, 3, 2>>, "Fuel", 4), expense(<<2024, 4, 30>>, "Rent", 9) >>,
      << expense(<<2024, 5, 7>>, "", 20), expense(<<2024, 5, 7>>, "Rent", 100),
         expense(<<2024, 5, 6>>, "Rent", 7), expense(<<2024, 5, 7>>, "Fuel", 60),
         expense(<<2024, 5, 7>>, "Rent", 50), expense(<<2024, 5, 7>>, "Other", 40) >>,
      [i \in 1..(MaxCategories + 1) |->
          expense(<<2024, 5, 7>>,
                  IF i = 3 THEN "" ELSE CategoryNames[((i - 1) % MaxCategories) + 1],
                  IF i = 3 THEN 4 ELSE ((i * 3) % 5) + 1)] }

\* state after construction: the constructor has called load() for the form's default date
DashInit ==
    /\ selectedDate = <<2024, 5, 7>>
    /\ dashLoading = TRUE /\ dashError = Null
    /\ grossProfit = 0 /\ expensesToday = 0
    /\ profit7DaysLabels = <<>> /\ profit7DaysData = <<>>
    /\ topProductsLabels = <<>> /\ topProductsQty = <<>>
    /\ expenseBreakdownLabels = <<>> /\ expenseBreakdownValues = <<>>
    /\ dashInflight = { newDashLoad(selectedDate, 1) }

----------------------------------------------------------------------------
(* GraphqlService: request posts the query and maps the response *)

\* the bodies of GraphQL responses: data and errors may each be absent
GraphqlData == { Null, [me |-> 1] }
GraphqlErrors == { <<>>, << [message |-> "a"] >>, << [message |-> "a"], [message |-> "b"] >> }
GraphqlResponse ==
    { [k \in K |-> IF k = "data" THEN d ELSE errs] :
        K \in SUBSET {"data", "errors"}, d \in GraphqlData, errs \in GraphqlErrors }

\* the variables callers pass
RequestVariables == { Undefined, [id |-> 1] }

\* list.join(sep): the elements with sep between them
join(list, sep) ==
    [i \in 1..(IF list = <<>> THEN 0 ELSE 2 * Len(list) - 1) |->
        IF i % 2 = 1 THEN list[(i + 1) \div 2] ELSE sep]

mapResponseDataFirst(res) ==
    IF "data" \in DOMAIN res /\ res.data # Null THEN [next |-> res.data]
    ELSE IF "errors" \in DOMAIN res /\ Len(res.errors) # 0
    THEN [error |-> join([i \in DOMAIN res.errors |-> res.errors[i].message], "\n")]
    ELSE [error |-> <<"No data returned from GraphQL">>]

\* the map callback: throw on res.errors?.length, throw on !res.data, else
\* return res.data; what is thrown reaches the subscriber as an error
mapResponse(res) ==
    IF "errors" \in DOMAIN res /\ Len(res.errors) # 0
    THEN [error |-> join([i \in DOMAIN res.errors |-> res.errors[i].message], "\n")]
    ELSE IF "data" \notin DOMAIN res \/ res.data = Null
    THEN [error |-> <<"No data returned from GraphQL">>]
    ELSE [next |-> res.data]

\* request(query, variables), subscribed to by its caller: one POST of the
\* query with variables ?? {}
GraphqlService_request(variables) ==
    /\ Len(http) < MaxCalls
    /\ http' = Append(http, [posts |-> << [variables |-> IF variables = Undefined
                                                          THEN [none |-> TRUE] ELSE variables] >>,
                              response |-> Pending, outcomes |-> <<>>])
    /\ UNCHANGED exceptGql

\* the response to the POST of call c arrives
httpNext(c, res) ==
    /\ c \in DOMAIN http /\ http[c].response = Pending
    /\ http' = [http EXCEPT ![c].response = [body |-> res],
                            ![c].outcomes = Append(@, mapResponse(res))]
    /\ UNCHANGED exceptGql

\* the POST of call c fails (no connection, a status outside 2xx): map is
\* not run and the failure goes to the subscriber as it is
httpError(c, failure) ==
    /\ c \in DOMAIN http /\ http[c].response = Pending
    /\ http' = [http EXCEPT ![c].response = [failure |-> failure],
                            ![c].outcomes = Append(@, [httpFailure |-> failure])]
    /\ UNCHANGED exceptGql

----------------------------------------------------------------------------
(* The pages.  The router shows one page component at a time; a page's       *)
(* constructor issues its first requests, its handlers run one at a time, and *)
(* its requests complete or fail in any order.                               *)

REPORTS == <<"R", "E", "P", "O", "R", "T", "S">>
Reports == <<"R", "e", "p", "o", "r", "t", "s">>

dlgVars == <<dialogOpen, pendingTarget>>

homeVars == <<dashMe, dashPermissions, profitLoading, profitError, profitShown>>

\* the pages whose delete dialog is confirmDeleteOpen with pendingDelete...Id
DeletePages == {"PurchasingPage", "MySalesPage", "ExpensesPage", "ExpenseCategoriesPage"}

\* the pages whose dialog stays open until the mutation has succeeded
KeepOpenPages == {"ProductsPage", "InventoryPage"}

DialogPages == DeletePages \cup KeepOpenPages

Pages == {"DashboardPage", "ReportsPage"} \cup DialogPages

\* the ids of the records a page lists
Ids == {"7", "8"}

\* this.gql.request(query, variables)
gqlRequest(kind, arg) == [kind |-> kind, arg |-> arg]

\* the requests of the sequence reqs as a bag
bagOf(reqs) ==
    [x \in { reqs[i] : i \in DOMAIN reqs } |-> Cardinality({ i \in DOMAIN reqs : reqs[i] = x })]

\* subscribe to the requests reqs; rest stay in flight
send(rest, reqs) == requests' = rest (+) bagOf(reqs)

\* the requests in flight other than r
others(r) == requests (-) SetToBag({r})

\* the user does not start an operation while MaxInFlight requests are in flight
busy == BagCardinality(requests) >= MaxInFlight

\* the handler that ran last
ran(name, r) == [handler |-> name, request |-> r]

\* e instanceof Error ? e.message : fallback
messageOf(e, fallback) == [message |-> IF e.isError THEN e.message ELSE fallback]

\* the fallback message of the error handler of each request
FallbackMessages ==
    [DashboardPage |-> [movements |-> "Failed to load dashboard", profit |-> "Failed to load profit"],
     ReportsPage |-> [audit |-> "Failed to load movement audit",
                      daily |-> "Failed to load daily sales report"],
     PurchasingPage |-> [list |-> "Failed to load purchase orders",
                         delete |-> "Failed to delete purchase",
                         create |-> "Failed to receive purchase",
                         update |-> "Failed to update purchase"],
     MySalesPage |-> [list |-> "Failed to load my sales", delete |-> "Failed to delete my sale"],
     ExpensesPage |-> [list |-> "Failed to load expenses", delete |-> "Failed to delete expense"],
     ExpenseCategoriesPage |-> [list |-> "Failed to load categories",
                                delete |-> "Failed to delete category"],
     ProductsPage |-> [list |-> "Failed to load", update |-> "Failed to update",
                       updateBatch |-> "Failed to update batch", delete |-> "Failed to delete",
                       create |-> "Failed to create", createBatch |-> "Batch creation failed"],
     InventoryPage |-> [list |-> "Failed to load inventory",
                        adjust |-> "Failed to adjust inventory"]]

\* requests whose error handler is () => {} or only resets a list
QuietKinds == {"valuation", "counts", "alerts", "categories"}

\* queries whose handlers both end with loading.set(false)
QueryKinds == {"movements", "audit", "daily", "list"}

\* mutations: next calls load(), error ends with loading.set(false)
MutationKinds == {"delete", "create", "update", "adjust", "updateBatch", "createBatch"}

\* the mutations of page p whose next handler only calls this.load()
reloadKinds(p) ==
    CASE p \in DeletePages -> {"delete", "create", "update"}
      [] p = "ProductsPage" -> {"updateBatch", "createBatch"}
      [] OTHER -> {}

\* the requests of load() of page p, in the order of their subscriptions
loadRequests(p, date) ==
    CASE p = "DashboardPage" ->
            << gqlRequest("me", Null), gqlRequest("myPermissions", Null),
               gqlRequest("valuation", Null), gqlRequest("counts", Null),
               gqlRequest("alerts", Null), gqlRequest("movements", Null) >>
      [] p = "ReportsPage" ->
            << gqlRequest("valuation", Null), gqlRequest("audit", Null) >>
            \o (IF date = EmptyDate THEN <<>> ELSE << gqlRequest("daily", [date |-> date]) >>)
      [] OTHER -> << gqlRequest("list", Null) >>

\* load(): loading.set(true); error.set(null); the requests.  ReportsPage.load
\* ends with loadDailySales(), which without a date does loading.set(false)
pageLoad(rest) ==
    /\ pgLoading' = ~(page = "ReportsPage" /\ pageDate = EmptyDate)
    /\ pgError' = Null
    /\ send(rest, loadRequests(page, pageDate))

\* the requests of the constructor of page p: load(), after loadCategories()
\* on the expenses page
constructorRequests(p) ==
    (IF p \in {"ExpensesPage", "ProductsPage"} THEN << gqlRequest("categories", Null) >> ELSE <<>>)
    \o loadRequests(p, Today)

\* the state after the construction of page p
constructed(p) ==
    /\ page = p /\ pageDate = Today
    /\ pgLoading = TRUE /\ pgError = Null
    /\ requests = bagOf(constructorRequests(p))
    /\ lastStep = ran("constructor", Null)
    /\ dialogOpen = FALSE /\ pendingTarget = Null
    /\ dashMe = Null /\ dashPermissions = <<>>
    /\ profitLoading = FALSE /\ profitError = Null /\ profitShown = Null

\* a query of QueryKinds completes: its signal is set; loading.set(false)
queryNext(r) ==
    /\ BagIn(r, requests) /\ r.kind \in QueryKinds
    /\ ~(page \in KeepOpenPages /\ r.kind = "list")
    /\ pgLoading' = FALSE
    /\ send(others(r), <<>>)
    /\ lastStep' = ran("next", r)
    /\ UNCHANGED <<page, pgError, pageDate, dlgVars, homeVars>>
    /\ UNCHANGED exceptPage

\* a mutation completes: the handler ends with this.load()
mutationNext(r) ==
    /\ BagIn(r, requests) /\ r.kind \in reloadKinds(page)
    /\ pageLoad(others(r))
    /\ lastStep' = ran("next", r)
    /\ UNCHANGED <<page, pageDate, dlgVars, homeVars>>
    /\ UNCHANGED exceptPage

pageRequestErrorKeepsLoading(r, e) ==
    /\ BagIn(r, requests) /\ r.kind \in QueryKinds \cup MutationKinds
    /\ pgError' = messageOf(e, FallbackMessages[page][r.kind])
    /\ send(others(r), <<>>)
    /\ lastStep' = ran("error", r)
    /\ UNCHANGED <<page, pgLoading, pageDate, dlgVars, homeVars>>
    /\ UNCHANGED exceptPage

\* a query or mutation fails: error.set(message); loading.set(false)
pageRequestError(r, e) ==
    /\ BagIn(r, requests) /\ r.kind \in QueryKinds \cup MutationKinds
    /\ pgError' = messageOf(e, FallbackMessages[page][r.kind])
    /\ pgLoading' = FALSE
    /\ send(others(r), <<>>)
    /\ lastStep' = ran("error", r)
    /\ UNCHANGED <<page, pageDate, dlgVars, homeVars>>
    /\ UNCHANGED exceptPage

\* a request of QuietKinds completes: only its own signals are set
quietNext(r) ==
    /\ BagIn(r, requests) /\ r.kind \in QuietKinds
    /\ send(others(r), <<>>)
    /\ lastStep' = ran("next", r)
    /\ UNCHANGED <<page, pgLoading, pgError, pageDate, dlgVars, homeVars>>
    /\ UNCHANGED exceptPage

\* a request of QuietKinds fails: error: () => {}
quietError(r) ==
    /\ BagIn(r, requests) /\ r.kind \in QuietKinds
    /\ send(others(r), <<>>)
    /\ lastStep' = ran("error", r)
    /\ UNCHANGED <<page, pgLoading, pgError, pageDate, dlgVars, homeVars>>
    /\ UNCHANGED exceptPage

\* DashboardPage: what the myPermissions query returns
HomePermissionsResult ==
    { [myPermissions |-> l] :
        l \in { <<>>,
                << [module |-> REPORTS, canView |-> TRUE, canCreate |-> FALSE,
                    canEdit |-> FALSE, canDelete |-> FALSE] >>,
                << [module |-> Reports, canView |-> TRUE, canCreate |-> FALSE,
                    canEdit |-> FALSE, canDelete |-> FALSE] >>,
                << [module |-> REPORTS, canView |-> FALSE, canCreate |-> TRUE,
                    canEdit |-> FALSE, canDelete |-> FALSE] >>,
                << [module |-> SALES, canView |-> TRUE, canCreate |-> FALSE,
                    canEdit |-> FALSE, canDelete |-> FALSE] >> } }
    \cup { [data |-> "empty"] }

\* the dates of the date forms
PageDates == { Today, <<2024, 1, 2>>, EmptyDate }

\* loadProfit(): nothing without canView('REPORTS'); else profitLoading.set(true);
\* profitError.set(null); without a date profitLoading.set(false), else the
\* forkJoin of the profit requests, taken here as one request
loadProfit(user, perms, date, rest) ==
    IF ~DashboardPage_canView(user, perms, REPORTS)
    THEN send(rest, <<>>) /\ UNCHANGED <<profitLoading, profitError>>
    ELSE /\ profitError' = Null
         /\ profitLoading' = (date # EmptyDate)
         /\ send(rest, IF date = EmptyDate THEN <<>>
                        ELSE << gqlRequest("profit", [date |-> date]) >>)

\* the user picks a date and calls loadProfit()
DashboardPage_loadProfit(date) ==
    /\ page = "DashboardPage" /\ ~busy
    /\ pageDate' = date
    /\ loadProfit(dashMe, dashPermissions, date, requests)
    /\ lastStep' = ran("loadProfit", Null)
    /\ UNCHANGED <<page, pgLoading, pgError, dlgVars, dashMe, dashPermissions, profitShown>>
    /\ UNCHANGED exceptPage

\* loadMe next: this.me.set(res.me)
DashboardPage_loadMeNext(r, res) ==
    /\ BagIn(r, requests) /\ r.kind = "me"
    /\ dashMe' = res.me
    /\ send(others(r), <<>>)
    /\ lastStep' = ran("next", r)
    /\ UNCHANGED <<page, pgLoading, pgError, pageDate, dlgVars,
                    dashPermissions, profitLoading, profitError, profitShown>>
    /\ UNCHANGED exceptPage

\* loadMe error: this.me.set(null)
DashboardPage_loadMeError(r) ==
    /\ BagIn(r, requests) /\ r.kind = "me"
    /\ dashMe' = Null
    /\ send(others(r), <<>>)
    /\ lastStep' = ran("error", r)
    /\ UNCHANGED <<page, pgLoading, pgError, pageDate, dlgVars,
                    dashPermissions, profitLoading, profitError, profitShown>>
    /\ UNCHANGED exceptPage

\* loadMyPermissions next: this.myPermissions.set(res.myPermissions ?? []);
\* if (this.canView('REPORTS')) this.loadProfit()
DashboardPage_loadMyPermissionsNext(r, res) ==
    /\ BagIn(r, requests) /\ r.kind = "myPermissions"
    /\ LET list == IF "myPermissions" \in DOMAIN res THEN res.myPermissions ELSE <<>>
       IN  /\ dashPermissions' = list
           /\ loadProfit(dashMe, list, pageDate, others(r))
    /\ lastStep' = ran("next", r)
    /\ UNCHANGED <<page, pgLoading, pgError, pageDate, dlgVars, dashMe, profitShown>>
    /\ UNCHANGED exceptPage

\* loadMyPermissions error: this.myPermissions.set([])
DashboardPage_loadMyPermissionsError(r) ==
    /\ BagIn(r, requests) /\ r.kind = "myPermissions"
    /\ dashPermissions' = <<>>
    /\ send(others(r), <<>>)
    /\ lastStep' = ran("error", r)
    /\ UNCHANGED <<page, pgLoading, pgError, pageDate, dlgVars, dashMe,
                    profitLoading, profitError, profitShown>>
    /\ UNCHANGED exceptPage

\* loadProfit next: the figures of the date are set; profitLoading.set(false)
DashboardPage_loadProfitNext(r) ==
    /\ BagIn(r, requests) /\ r.kind = "profit"
    /\ profitShown' = r.arg
    /\ profitLoading' = FALSE
    /\ send(others(r), <<>>)
    /\ lastStep' = ran("next", r)
    /\ UNCHANGED <<page, pgLoading, pgError, pageDate, dlgVars, dashMe,
                    dashPermissions, profitError>>
    /\ UNCHANGED exceptPage

\* loadProfit error: profitError.set(message); profitLoading.set(false)
DashboardPage_loadProfitError(r, e) ==
    /\ BagIn(r, requests) /\ r.kind = "profit"
    /\ profitError' = messageOf(e, FallbackMessages[page][r.kind])
    /\ profitLoading' = FALSE
    /\ send(others(r), <<>>)
    /\ lastStep' = ran("error", r)
    /\ UNCHANGED <<page, pgLoading, pgError, pageDate, dlgVars, dashMe,
                    dashPermissions, profitShown>>
    /\ UNCHANGED exceptPage

\* ReportsPage.load(), with the date form holding date
ReportsPage_load(date) ==
    /\ page = "ReportsPage" /\ ~busy
    /\ pageDate' = date
    /\ pgLoading' = (date # EmptyDate)
    /\ pgError' = Null
    /\ send(requests, loadRequests(page, date))
    /\ lastStep' = ran("load", Null)
    /\ UNCHANGED <<page, dlgVars, homeVars>>
    /\ UNCHANGED exceptPage

\* ReportsPage.loadAudit(): loading.set(true); error.set(null); the request
ReportsPage_loadAudit ==
    /\ page = "ReportsPage" /\ ~busy
    /\ pgLoading' = TRUE
    /\ pgError' = Null
    /\ send(requests, << gqlRequest("audit", Null) >>)
    /\ lastStep' = ran("loadAudit", Null)
    /\ UNCHANGED <<page, pageDate, dlgVars, homeVars>>
    /\ UNCHANGED exceptPage

\* ReportsPage.loadDailySales(): loading.set(true); error.set(null); without a
\* date dailySales.set(null); loading.set(false), else the request
ReportsPage_loadDailySales(date) ==
    /\ page = "ReportsPage" /\ ~busy
    /\ pageDate' = date
    /\ pgLoading' = (date # EmptyDate)
    /\ pgError' = Null
    /\ send(requests, IF date = EmptyDate THEN <<>>
                       ELSE << gqlRequest("daily", [date |-> date]) >>)
    /\ lastStep' = ran("loadDailySales", Null)
    /\ UNCHANGED <<page, dlgVars, homeVars>>
    /\ UNCHANGED exceptPage

\* openDeleteConfirm(id): pendingDelete...Id.set(String(id)); confirmDeleteOpen.set(true)
\* (ProductsPage.delete(p), InventoryPage.openAdjust(i): the pending row, the dialog)
openDeleteConfirm(id) ==
    /\ page \in DialogPages
    /\ pendingTarget' = [id |-> id]
    /\ dialogOpen' = TRUE
    /\ lastStep' = ran("openDeleteConfirm", Null)
    /\ UNCHANGED <<page, pgLoading, pgError, pageDate, requests, homeVars>>
    /\ UNCHANGED exceptPage

\* cancelDeleteConfirm(): confirmDeleteOpen.set(false); pendingDelete...Id.set(null)
cancelDeleteConfirm ==
    /\ page \in DialogPages
    /\ dialogOpen' = FALSE
    /\ pendingTarget' = Null
    /\ lastStep' = ran("cancelDeleteConfirm", Null)
    /\ UNCHANGED <<page, pgLoading, pgError, pageDate, requests, homeVars>>
    /\ UNCHANGED exceptPage

confirmDeleteTwice ==
    /\ page \in DeletePages
    /\ IF pendingTarget = Null
       THEN UNCHANGED <<dlgVars, pgLoading, pgError, requests>>
       ELSE /\ ~busy
            /\ dialogOpen' = FALSE
            /\ pendingTarget' = Null
            /\ pgLoading' = TRUE
            /\ pgError' = Null
            /\ send(requests, << gqlRequest("delete", pendingTarget),
                                  gqlRequest("delete", pendingTarget) >>)
    /\ lastStep' = ran("confirmDelete", pendingTarget)
    /\ UNCHANGED <<page, pageDate, homeVars>>
    /\ UNCHANGED exceptPage

\* confirmDelete(): without a pending id nothing; else close the dialog, clear
\* the id and delete...(id): loading.set(true); error.set(null); the mutation
confirmDelete ==
    /\ page \in DeletePages
    /\ IF pendingTarget = Null
       THEN UNCHANGED <<dlgVars, pgLoading, pgError, requests>>
       ELSE /\ ~busy
            /\ dialogOpen' = FALSE
            /\ pendingTarget' = Null
            /\ pgLoading' = TRUE
            /\ pgError' = Null
            /\ send(requests, << gqlRequest("delete", pendingTarget) >>)
    /\ lastStep' = ran("confirmDelete", pendingTarget)
    /\ UNCHANGED <<page, pageDate, homeVars>>
    /\ UNCHANGED exceptPage

\* PurchasingPage.savePurchase(), the page holding lines lines and editing
\* order editingId: without lines error.set('Add at least one line'); else
\* loading.set(true); error.set(null) and the update or receive mutation
savePurchase(lines, editingId) ==
    /\ page = "PurchasingPage"
    /\ IF lines = 0
       THEN /\ pgError' = [message |-> "Add at least one line"]
            /\ UNCHANGED <<pgLoading, requests>>
       ELSE /\ ~busy
            /\ pgLoading' = TRUE
            /\ pgError' = Null
            /\ send(requests, << gqlRequest(IF editingId = Null THEN "create" ELSE "update",
                                             editingId) >>)
    /\ lastStep' = ran("savePurchase", Null)
    /\ UNCHANGED <<page, pageDate, dlgVars, homeVars>>
    /\ UNCHANGED exceptPage

----------------------------------------------------------------------------
(* ProductsPage and InventoryPage *)

\* pageSize = signal(20)
DefaultPageSize == 20

\* a JavaScript number: an integer, NaN or Infinity
NaN == [nan |-> TRUE]
Infinity == [infinity |-> TRUE]
number(n) == [int |-> n]

\* what setPageSize is called with: numbers, and the strings "2", " 3 ", "",
\* "abc", "Infinity", "-1"
numeral(n) == [string |-> "numeral", value |-> n]
blank == [string |-> ""]
PageSizeInputs ==
    { number(n) : n \in {-1, 0, 1, 2, 3} } \cup { numeral(n) : n \in {-1, 0, 2, 3} }
    \cup { blank, [string |-> "abc"], [string |-> "Infinity"], NaN }

\* Number(size): a number is itself; a string of digits its value, an empty
\* or blank string 0, "Infinity" Infinity, any other string NaN
Number(size) ==
    IF "string" \notin DOMAIN size THEN size
    ELSE CASE size.string = "numeral" -> number(size.value)
           [] size.string = "" -> number(0)
           [] size.string = "Infinity" -> Infinity
           [] OTHER -> NaN

\* Number.isFinite
isFinite(x) == "int" \in DOMAIN x

\* Math.ceil(a / b) for a >= 0, b > 0
ceilDiv(a, b) == (a + b - 1) \div b

\* totalPages: Math.max(1, Math.ceil(total / size))
totalPages == Max(1, ceilDiv(Len(products), pageSize))

\* all.slice(start, end)
slice(all, start, end) ==
    LET from == Min(start, Len(all))
        to == Max(from, Min(end, Len(all)))
    IN  [i \in 1..(to - from) |-> all[from + i]]

\* the products of page idx: all.slice(idx * size, idx * size + size)
pageOf(idx) == slice(products, idx * pageSize, idx * pageSize + pageSize)

\* displayedProducts
displayedProducts == pageOf(pageIndex)

\* the lists a products query returns
ProductLists == { [i \in 1..n |-> i] : n \in 0..MaxProducts }

\* load next: products.set(res.products); pageIndex.set(0); loading.set(false)
ProductsPage_loadNext(r, res) ==
    /\ page = "ProductsPage" /\ BagIn(r, requests) /\ r.kind = "list"
    /\ products' = res
    /\ pageIndex' = 0
    /\ pgLoading' = FALSE
    /\ send(others(r), <<>>)
    /\ lastStep' = ran("next", r)
    /\ UNCHANGED <<page, pgError, pageDate, dlgVars, homeVars, pageSize>>
    /\ UNCHANGED exceptProductsPage

\* onSearch(value): searchQuery.set(value); load()
ProductsPage_onSearch ==
    /\ page = "ProductsPage" /\ ~busy
    /\ pageLoad(requests)
    /\ lastStep' = ran("onSearch", Null)
    /\ UNCHANGED <<page, pageDate, dlgVars, homeVars>>
    /\ UNCHANGED exceptPage

setPageSizeKeepIndex(size) ==
    LET next == Number(size) IN
    /\ page = "ProductsPage"
    /\ IF ~isFinite(next) \/ next.int <= 0
       THEN UNCHANGED <<pageSize, pageIndex>>
       ELSE pageSize' = next.int /\ UNCHANGED pageIndex
    /\ lastStep' = ran("setPageSize", size)
    /\ UNCHANGED <<page, pgLoading, pgError, pageDate, requests, dlgVars, homeVars, products>>
    /\ UNCHANGED exceptProductsPage

\* setPageSize(size): next = Number(size); nothing unless next is finite and
\* positive; pageSize.set(next); pageIndex.set(0)
setPageSize(size) ==
    LET next == Number(size) IN
    /\ page = "ProductsPage"
    /\ IF ~isFinite(next) \/ next.int <= 0
       THEN UNCHANGED <<pageSize, pageIndex>>
       ELSE pageSize' = next.int /\ pageIndex' = 0
    /\ lastStep' = ran("setPageSize", size)
    /\ UNCHANGED <<page, pgLoading, pgError, pageDate, requests, dlgVars, homeVars, products>>
    /\ UNCHANGED exceptProductsPage

\* prevPage(): nothing at index 0, else pageIndex.set(idx - 1)
prevPage ==
    /\ page = "ProductsPage"
    /\ pageIndex' = IF pageIndex <= 0 THEN pageIndex ELSE pageIndex - 1
    /\ lastStep' = ran("prevPage", Null)
    /\ UNCHANGED <<page, pgLoading, pgError, pageDate, requests, dlgVars, homeVars,
                    products, pageSize>>
    /\ UNCHANGED exceptProductsPage

\* nextPage(): nothing at the last page, else pageIndex.set(idx + 1)
nextPage ==
    /\ page = "ProductsPage"
    /\ pageIndex' = IF pageIndex >= totalPages - 1 THEN pageIndex ELSE pageIndex + 1
    /\ lastStep' = ran("nextPage", Null)
    /\ UNCHANGED <<page, pgLoading, pgError, pageDate, requests, dlgVars, homeVars,
                    products, pageSize>>
    /\ UNCHANGED exceptProductsPage

\* saveEdit(): nothing without editingId or with an invalid form; else
\* loading.set(true); error.set(null); the updateProduct mutation
ProductsPage_saveEdit(editingId, invalid) ==
    /\ page = "ProductsPage"
    /\ IF editingId = Null \/ invalid
       THEN UNCHANGED <<pgLoading, pgError, requests>>
       ELSE /\ ~busy
            /\ pgLoading' = TRUE
            /\ pgError' = Null
            /\ send(requests, << gqlRequest("update", editingId) >>)
    /\ lastStep' = ran("saveEdit", Null)
    /\ UNCHANGED <<page, pageDate, dlgVars, homeVars>>
    /\ UNCHANGED exceptPage

\* create(value): loading.set(true); error.set(null); the createProduct mutation
ProductsPage_create ==
    /\ page = "ProductsPage" /\ ~busy
    /\ pgLoading' = TRUE
    /\ pgError' = Null
    /\ send(requests, << gqlRequest("create", Null) >>)
    /\ lastStep' = ran("create", Null)
    /\ UNCHANGED <<page, pageDate, dlgVars, homeVars>>
    /\ UNCHANGED exceptPage

\* updateProduct next, createProduct next: without a batch to update (to
\* create) this.load(); else the updateBatchNumber (createBatch) mutation
productSavedNext(r, withBatch) ==
    /\ page = "ProductsPage" /\ BagIn(r, requests) /\ r.kind \in {"update", "create"}
    /\ IF withBatch
       THEN /\ send(others(r), << gqlRequest(IF r.kind = "update" THEN "updateBatch"
                                                                  ELSE "createBatch", r.arg) >>)
            /\ UNCHANGED <<pgLoading, pgError>>
       ELSE pageLoad(others(r))
    /\ lastStep' = ran("next", r)
    /\ UNCHANGED <<page, pageDate, dlgVars, homeVars>>
    /\ UNCHANGED exceptPage

\* ProductsPage.confirmDelete(): nothing without pendingDelete; else
\* loading.set(true); error.set(null); the setProductStatus mutation
ProductsPage_confirmDelete ==
    /\ page = "ProductsPage"
    /\ IF pendingTarget = Null
       THEN UNCHANGED <<pgLoading, pgError, requests>>
       ELSE /\ ~busy
            /\ pgLoading' = TRUE
            /\ pgError' = Null
            /\ send(requests, << gqlRequest("delete", pendingTarget) >>)
    /\ lastStep' = ran("confirmDelete", pendingTarget)
    /\ UNCHANGED <<page, pageDate, dlgVars, homeVars>>
    /\ UNCHANGED exceptPage

\* InventoryPage.confirmAdjust() with the form holding delta: nothing without
\* pendingAdjust, with an invalid form or with delta 0; else loading.set(true);
\* error.set(null); the adjustInventory mutation
InventoryPage_confirmAdjust(invalid, delta) ==
    /\ page = "InventoryPage"
    /\ IF pendingTarget = Null \/ invalid \/ delta = 0
       THEN UNCHANGED <<pgLoading, pgError, requests>>
       ELSE /\ ~busy
            /\ pgLoading' = TRUE
            /\ pgError' = Null
            /\ send(requests, << gqlRequest("adjust", pendingTarget) >>)
    /\ lastStep' = ran("confirmAdjust", IF invalid \/ delta = 0 THEN Null ELSE pendingTarget)
    /\ UNCHANGED <<page, pageDate, dlgVars, homeVars>>
    /\ UNCHANGED exceptPage

\* setProductStatus next, adjustInventory next: the dialog is closed, the
\* pending row cleared, this.load()
dialogMutationNext(r) ==
    /\ page \in KeepOpenPages /\ BagIn(r, requests) /\ r.kind \in {"delete", "adjust"}
    /\ dialogOpen' = FALSE
    /\ pendingTarget' = Null
    /\ pageLoad(others(r))
    /\ lastStep' = ran("next", r)
    /\ UNCHANGED <<page, pageDate, homeVars>>
    /\ UNCHANGED exceptPage

\* InventoryPage load next: items.set(...); with a threshold above 0
\* loadLowStockAlerts(threshold); loading.set(false)
InventoryPage_loadNext(r, threshold) ==
    /\ page = "InventoryPage" /\ BagIn(r, requests) /\ r.kind = "list"
    /\ send(others(r), IF threshold > 0 THEN << gqlRequest("alerts", Null) >> ELSE <<>>)
    /\ pgLoading' = FALSE
    /\ lastStep' = ran("next", r)
    /\ UNCHANGED <<page, pgError, pageDate, dlgVars, homeVars>>
    /\ UNCHANGED exceptPage

----------------------------------------------------------------------------
(* UsersPage: the permissions dialog *)

\* readonly modules, shortened to two of its nine entries
modules == << SALES, REPORTS >>

\* the users of the list
UserIds == {"1", "2"}

\* what the server stores for each user
storedPermissions(userId) ==
    IF userId = "1"
    THEN << [module |-> sales, canView |-> TRUE, canCreate |-> TRUE,
             canEdit |-> FALSE, canDelete |-> FALSE] >>
    ELSE << [module |-> REPORTS, canView |-> TRUE, canCreate |-> FALSE,
             canEdit |-> FALSE, canDelete |-> FALSE] >>

\* type UserPermissionsQueryResult for the query of userId
UserPermissionsResult(userId) ==
    { [userPermissions |-> storedPermissions(userId)], [data |-> "empty"] }

\* defaultPermissions(): one row per module, every flag false
defaultPermissions ==
    [i \in DOMAIN modules |->
        [module |-> modules[i], canView |-> FALSE, canCreate |-> FALSE,
         canEdit |-> FALSE, canDelete |-> FALSE]]

\* the rows the next handler builds: per module the flags of the incoming
\* record of that module (the last one, as new Map keeps it), false without one
rowsFrom(incoming) ==
    [i \in DOMAIN modules |->
        LET hits == { k \in DOMAIN incoming : toUpperCase(incoming[k].module) = modules[i] }
            p == incoming[CHOOSE k \in hits : \A j \in hits : j <= k]
        IN  IF hits = {} THEN defaultPermissions[i]
            ELSE [module |-> modules[i], canView |-> p.canView, canCreate |-> p.canCreate,
                  canEdit |-> p.canEdit, canDelete |-> p.canDelete]]

usersBusy == BagCardinality(usersRequests) >= MaxInFlight

\* openPermissions(userId): permissionsOpen.set(true); onSelectUserForPermissions:
\* selectedUserId.set(userId); permissions.set(defaults); loadUserPermissions():
\* permissionsLoading.set(true); error.set(null); the query for that user
UsersPage_openPermissions(userId) ==
    /\ ~usersBusy
    /\ permissionsOpen' = TRUE
    /\ selectedUserId' = userId
    /\ permissions' = defaultPermissions
    /\ permissionsOwner' = ""
    /\ permissionsLoading' = TRUE
    /\ usersError' = Null
    /\ usersRequests' = usersRequests (+) SetToBag({ gqlRequest("userPermissions", [userId |-> userId]) })
    /\ UNCHANGED sent
    /\ UNCHANGED exceptUsers

\* closePermissions(): permissionsOpen.set(false); selectedUserId.set(''); permissions.set([])
UsersPage_closePermissions ==
    /\ permissionsOpen
    /\ permissionsOpen' = FALSE
    /\ selectedUserId' = ""
    /\ permissions' = <<>>
    /\ permissionsOwner' = ""
    /\ UNCHANGED <<permissionsLoading, usersError, usersRequests, sent>>
    /\ UNCHANGED exceptUsers

\* loadUserPermissions next: permissions.set(rows of res.userPermissions ?? []);
\* permissionsLoading.set(false)
userPermissionsNext(r, res) ==
    /\ BagIn(r, usersRequests) /\ r.kind = "userPermissions"
    /\ permissions' = rowsFrom(IF "userPermissions" \in DOMAIN res
                               THEN res.userPermissions ELSE <<>>)
    /\ permissionsOwner' = r.arg.userId
    /\ permissionsLoading' = FALSE
    /\ usersRequests' = usersRequests (-) SetToBag({r})
    /\ UNCHANGED <<selectedUserId, permissionsOpen, usersError, sent>>
    /\ UNCHANGED exceptUsers

\* loadUserPermissions error: permissions.set(defaults); error.set(message);
\* permissionsLoading.set(false)
userPermissionsError(r, e) ==
    /\ BagIn(r, usersRequests) /\ r.kind = "userPermissions"
    /\ permissions' = defaultPermissions
    /\ permissionsOwner' = ""
    /\ usersError' = messageOf(e, "Failed to load permissions")
    /\ permissionsLoading' = FALSE
    /\ usersRequests' = usersRequests (-) SetToBag({r})
    /\ UNCHANGED <<selectedUserId, permissionsOpen, sent>>
    /\ UNCHANGED exceptUsers

\* togglePermission(module, key): the flag of the rows of that module is negated
UsersPage_togglePermission(module, key) ==
    /\ permissionsOpen
    /\ permissions' = [i \in DOMAIN permissions |->
                          IF toUpperCase(permissions[i].module) # toUpperCase(module)
                          THEN permissions[i]
                          ELSE [permissions[i] EXCEPT ![key] = ~@]]
    /\ UNCHANGED <<selectedUserId, permissionsOpen, permissionsLoading, permissionsOwner,
                    usersError, usersRequests, sent>>
    /\ UNCHANGED exceptUsers

\* savePermissions(): nothing without a selected user; else
\* permissionsLoading.set(true); error.set(null); the mutation with
\* { userId: selectedUserId(), permissions: permissions() }
UsersPage_savePermissions ==
    /\ permissionsOpen /\ ~usersBusy
    /\ IF selectedUserId = ""
       THEN UNCHANGED <<permissionsLoading, usersError, usersRequests, sent>>
       ELSE LET input == [userId |-> selectedUserId, permissions |-> permissions] IN
            /\ permissionsLoading' = TRUE
            /\ usersError' = Null
            /\ usersRequests' = usersRequests (+) SetToBag({ gqlRequest("setUserPermissions", input) })
            /\ sent' = sent \cup { [userId |-> selectedUserId, owner |-> permissionsOwner] }
    /\ UNCHANGED <<selectedUserId, permissionsOpen, permissions, permissionsOwner>>
    /\ UNCHANGED exceptUsers

\* savePermissions next: success.set('Permissions updated'); permissionsLoading.set(false)
setUserPermissionsNext(r) ==
    /\ BagIn(r, usersRequests) /\ r.kind = "setUserPermissions"
    /\ permissionsLoading' = FALSE
    /\ usersRequests' = usersRequests (-) SetToBag({r})
    /\ UNCHANGED <<selectedUserId, permissionsOpen, permissions, permissionsOwner, usersError, sent>>
    /\ UNCHANGED exceptUsers

\* savePermissions error: error.set(message); permissionsLoading.set(false)
setUserPermissionsError(r, e) ==
    /\ BagIn(r, usersRequests) /\ r.kind = "setUserPermissions"
    /\ usersError' = messageOf(e, "Failed to update permissions")
    /\ permissionsLoading' = FALSE
    /\ usersRequests' = usersRequests (-) SetToBag({r})
    /\ UNCHANGED <<selectedUserId, permissionsOpen, permissions, permissionsOwner, sent>>
    /\ UNCHANGED exceptUsers

----------------------------------------------------------------------------
(* ShellLayout: the menus, the sidebar and the notification count *)

\* refreshNotifications(): the expiryAlerts query
refreshNotifications == shellRequests (+) SetToBag({ gqlRequest("expiryAlerts", Null) })

shellBusy == BagCardinality(shellRequests) >= MaxInFlight

\* after construction: the sidebar closed on a narrow window; with a session
\* refreshNotifications() has been called
ShellInit ==
    /\ userMenuOpen = FALSE
    /\ notificationsOpen = FALSE
    /\ sidebarOpen \in BOOLEAN
    /\ notificationsCount = 0
    /\ shellRequests \in { EmptyBag, SetToBag({ gqlRequest("expiryAlerts", Null) }) }
    /\ shellStep = "constructor"

toggleUserMenuKeepOther ==
    /\ userMenuOpen' = ~userMenuOpen
    /\ shellStep' = "toggleUserMenu"
    /\ UNCHANGED <<notificationsOpen, sidebarOpen, notificationsCount, shellRequests>>
    /\ UNCHANGED exceptShell

\* toggleUserMenu(): userMenuOpen.set(!userMenuOpen()); if open then
\* notificationsOpen.set(false)
toggleUserMenu ==
    /\ userMenuOpen' = ~userMenuOpen
    /\ notificationsOpen' = IF userMenuOpen' THEN FALSE ELSE notificationsOpen
    /\ shellStep' = "toggleUserMenu"
    /\ UNCHANGED <<sidebarOpen, notificationsCount, shellRequests>>
    /\ UNCHANGED exceptShell

\* toggleNotifications(): notificationsOpen.set(!notificationsOpen()); if open
\* then userMenuOpen.set(false); refreshNotifications()
toggleNotifications ==
    /\ notificationsOpen' = ~notificationsOpen
    /\ IF notificationsOpen'
       THEN /\ ~shellBusy
            /\ userMenuOpen' = FALSE
            /\ shellRequests' = refreshNotifications
       ELSE UNCHANGED <<userMenuOpen, shellRequests>>
    /\ shellStep' = "toggleNotifications"
    /\ UNCHANGED <<sidebarOpen, notificationsCount>>
    /\ UNCHANGED exceptShell

\* closeMenus(): userMenuOpen.set(false); notificationsOpen.set(false)
closeMenus ==
    /\ userMenuOpen' = FALSE
    /\ notificationsOpen' = FALSE
    /\ shellStep' = "closeMenus"
    /\ UNCHANGED <<sidebarOpen, notificationsCount, shellRequests>>
    /\ UNCHANGED exceptShell

\* toggleSidebar(): sidebarOpen.set(!sidebarOpen())
toggleSidebar ==
    /\ sidebarOpen' = ~sidebarOpen
    /\ shellStep' = "toggleSidebar"
    /\ UNCHANGED <<userMenuOpen, notificationsOpen, notificationsCount, shellRequests>>
    /\ UNCHANGED exceptShell

\* closeSidebar(): sidebarOpen.set(false)
closeSidebar ==
    /\ sidebarOpen' = FALSE
    /\ shellStep' = "closeSidebar"
    /\ UNCHANGED <<userMenuOpen, notificationsOpen, notificationsCount, shellRequests>>
    /\ UNCHANGED exceptShell

\* expiryAlerts next: expiryCount = res.expiryAlerts.length; the lowStockAlerts query
expiryAlertsNext(r, expiryCount) ==
    /\ BagIn(r, shellRequests) /\ r.kind = "expiryAlerts"
    /\ shellRequests' = (shellRequests (-) SetToBag({r}))
                            (+) SetToBag({ gqlRequest("lowStockAlerts", [expiryCount |-> expiryCount]) })
    /\ shellStep' = "next"
    /\ UNCHANGED <<userMenuOpen, notificationsOpen, sidebarOpen, notificationsCount>>
    /\ UNCHANGED exceptShell

\* expiryAlerts error: notificationsCount.set(0)
expiryAlertsError(r) ==
    /\ BagIn(r, shellRequests) /\ r.kind = "expiryAlerts"
    /\ notificationsCount' = 0
    /\ shellRequests' = shellRequests (-) SetToBag({r})
    /\ shellStep' = "error"
    /\ UNCHANGED <<userMenuOpen, notificationsOpen, sidebarOpen>>
    /\ UNCHANGED exceptShell

\* lowStockAlerts next: notificationsCount.set(expiryCount + ls.lowStockAlerts.length)
lowStockAlertsNext(r, lowStockCount) ==
    /\ BagIn(r, shellRequests) /\ r.kind = "lowStockAlerts"
    /\ notificationsCount' = r.arg.expiryCount + lowStockCount
    /\ shellRequests' = shellRequests (-) SetToBag({r})
    /\ shellStep' = "next"
    /\ UNCHANGED <<userMenuOpen, notificationsOpen, sidebarOpen>>
    /\ UNCHANGED exceptShell

\* lowStockAlerts error: notificationsCount.set(expiryCount)
lowStockAlertsError(r) ==
    /\ BagIn(r, shellRequests) /\ r.kind = "lowStockAlerts"
    /\ notificationsCount' = r.arg.expiryCount
    /\ shellRequests' = shellRequests (-) SetToBag({r})
    /\ shellStep' = "error"
    /\ UNCHANGED <<userMenuOpen, notificationsOpen, sidebarOpen>>
    /\ UNCHANGED exceptShell

----------------------------------------------------------------------------
(* Specifications *)

\* Each specification runs one part of the program; the other parts stay as
\* they are after construction, with no request in flight.
ProfitPageIdle ==
    /\ form = [mode |-> "DAY", date |-> Today, month |-> 1, year |-> 2024]
    /\ rows = <<>> /\ loading = FALSE /\ error = Null /\ inflight = {}
    /\ reordered = FALSE

ProfitIdle ==
    /\ ProfitPageIdle
    /\ reports \in { [d \in {} |-> Null] }
    /\ expensesDb = <<>>

DateIdle == calc = Null

InvIdle ==
    /\ today = Today /\ tzWest = FALSE
    /\ item = Null /\ status = Null

DashIdle ==
    /\ selectedDate = Today
    /\ dashLoading = FALSE /\ dashError = Null
    /\ grossProfit = 0 /\ expensesToday = 0
    /\ profit7DaysLabels = <<>> /\ profit7DaysData = <<>>
    /\ topProductsLabels = <<>> /\ topProductsQty = <<>>
    /\ expenseBreakdownLabels = <<>> /\ expenseBreakdownValues = <<>>
    /\ dashInflight = {}

GqlIdle ==
    http = <<>>

PageIdle ==
    /\ page = "none" /\ pgLoading = FALSE /\ pgError = Null /\ pageDate = Today
    /\ requests = EmptyBag /\ lastStep = Null
    /\ dialogOpen = FALSE /\ pendingTarget = Null
    /\ dashMe = Null /\ dashPermissions = <<>>
    /\ profitLoading = FALSE /\ profitError = Null /\ profitShown = Null

UsersIdle ==
    /\ selectedUserId = ""
    /\ permissionsOpen = FALSE
    /\ permissionsLoading = FALSE
    /\ permissions = <<>>
    /\ permissionsOwner = ""
    /\ usersError = Null
    /\ usersRequests = EmptyBag
    /\ sent = {}

PagingIdle ==
    /\ products = <<>>
    /\ pageSize = DefaultPageSize
    /\ pageIndex = 0

ShellIdle ==
    /\ userMenuOpen = FALSE
    /\ notificationsOpen = FALSE
    /\ sidebarOpen = TRUE
    /\ notificationsCount = 0
    /\ shellRequests = EmptyBag
    /\ shellStep = "none"

Init == PermInit /\ ProfitIdle /\ DateIdle /\ InvIdle /\ DashIdle /\ GqlIdle /\ PageIdle /\ UsersIdle /\ PagingIdle /\ ShellIdle

\* pages call load() and reload(); responses arrive in any order
Next ==
    \/ load /\ UNCHANGED exceptPerm
    \/ reload /\ UNCHANGED exceptPerm
    \/ \E r \in pending, res \in MeResult : meNext(r, res) /\ UNCHANGED exceptPerm
    \/ \E r \in pending : meError(r) /\ UNCHANGED exceptPerm
    \/ \E r \in pending, res \in MyPermissionsResult : permNext(r, res) /\ UNCHANGED exceptPerm
    \/ \E r \in pending : permError(r) /\ UNCHANGED exceptPerm

Spec == Init /\ [][Next]_vars

ProfitSpecInit == PermInit /\ ProfitInit /\ DateIdle /\ InvIdle /\ DashIdle /\ GqlIdle /\ PageIdle /\ UsersIdle /\ PagingIdle /\ ShellIdle

\* the user submits the form while no load is in flight; the requests of a
\* load complete or fail in any order
ProfitSpecNext ==
    \/ \E f \in Forms :
          inflight = {} /\ ProfitManagementPage_load(f) /\ UNCHANGED exceptProfit
    \/ \E L \in inflight : \E key \in L.waiting :
          dailyNext(L, key) /\ UNCHANGED exceptProfit
    \/ \E L \in inflight : \E filtered \in BOOLEAN :
          expensesNext(L, filtered) /\ UNCHANGED exceptProfit
    \/ \E L \in inflight : \E key \in L.waiting : \E e \in Failures :
          requestError(L, key, e) /\ UNCHANGED exceptProfit

ProfitSpec == ProfitSpecInit /\ [][ProfitSpecNext]_vars

\* the inventory page shows items, one status at a time
InventorySpecInit == PermInit /\ ProfitIdle /\ DateIdle /\ InvInit /\ DashIdle /\ GqlIdle /\ PageIdle /\ UsersIdle /\ PagingIdle /\ ShellIdle

InventorySpecNext ==
    \/ \E i \in InventoryItem : InventoryPage_statusLabel(i)

InventorySpec == InventorySpecInit /\ [][InventorySpecNext]_vars

\* the user selects dates on the dashboard while no load is in flight; the
\* requests of a load complete or fail in any order
DashSpecInit ==
    /\ PermInit /\ ProfitPageIdle /\ DateIdle /\ InvIdle /\ DashInit
    /\ reports \in DashReportDbs
    /\ expensesDb \in DashExpenseDbs
    /\ GqlIdle
    /\ PageIdle
    /\ UsersIdle
    /\ PagingIdle
    /\ ShellIdle

DashSpecNext ==
    \/ \E date \in SelectedDates : dashInflight = {} /\ ProfitDashboardPage_load(date)
    \/ \E L \in dashInflight : dashDailyNext(L)
    \/ \E L \in dashInflight : \E filtered \in BOOLEAN : dashExpensesNext(L, filtered)
    \/ \E L \in dashInflight : \E key \in L.waiting : dashLast7Next(L, key)
    \/ \E L \in dashInflight : \E key \in L.waiting : \E e \in Failures :
          dashRequestError(L, key, e)

DashSpec == DashSpecInit /\ [][DashSpecNext]_vars

\* one call of a date helper, with any of the modelled arguments
DateSpecInit == PermInit /\ ProfitIdle /\ DateIdle /\ InvIdle /\ DashIdle /\ GqlIdle /\ PageIdle /\ UsersIdle /\ PagingIdle /\ ShellIdle

DateSpecNext ==
    \/ \E d \in IsoDates, a \in Shifts, b \in Shifts :
          calc = Null /\ callAddDaysIso(d, a, b)
    \/ \E y \in Years, m \in 0..13 :
          calc = Null /\ callMonthAggregation(y, m)

DateSpec == DateSpecInit /\ [][DateSpecNext]_vars

\* callers of GraphqlService.request; responses arrive in any order
GqlSpecInit == PermInit /\ ProfitIdle /\ DateIdle /\ InvIdle /\ DashIdle /\ GqlIdle /\ PageIdle /\ UsersIdle /\ PagingIdle /\ ShellIdle

GqlSpecNext ==
    \/ \E variables \in RequestVariables : GraphqlService_request(variables)
    \/ \E c \in DOMAIN http : \E res \in GraphqlResponse : httpNext(c, res)
    \/ \E c \in DOMAIN http : \E failure \in {0, 500} : httpError(c, failure)

GqlSpec == GqlSpecInit /\ [][GqlSpecNext]_vars

\* one page is shown; the user works on it and its requests complete or fail
\* in any order
\* the profit page with loads started while others are in flight: the user
\* submits DAY forms; the requests of the loads complete or fail in any order
DayForms == { f \in Forms : f.mode = "DAY" }

OverlapSpecInit == ProfitSpecInit /\ Len(expensesDb) <= 1

OverlapSpecNext ==
    \/ \E f \in DayForms :
          /\ Cardinality(inflight) < MaxOverlap
          /\ ProfitManagementPage_load(f) /\ UNCHANGED exceptProfit
    \/ \E L \in inflight : \E key \in L.waiting :
          dailyNext(L, key) /\ UNCHANGED exceptProfit
    \/ \E L \in inflight : \E filtered \in BOOLEAN :
          expensesNext(L, filtered) /\ UNCHANGED exceptProfit
    \/ \E L \in inflight : \E key \in L.waiting : \E e \in Failures :
          requestError(L, key, e) /\ UNCHANGED exceptProfit

OverlapSpec == OverlapSpecInit /\ [][OverlapSpecNext]_vars

\* the users page with its permissions dialog
UsersSpecInit == PermInit /\ ProfitIdle /\ DateIdle /\ InvIdle /\ DashIdle /\ GqlIdle /\ PageIdle /\ UsersIdle /\ PagingIdle /\ ShellIdle

UsersSpecNext ==
    \/ \E userId \in UserIds : UsersPage_openPermissions(userId)
    \/ UsersPage_closePermissions
    \/ \E r \in BagToSet(usersRequests) : \E res \in UserPermissionsResult(r.arg.userId) :
          userPermissionsNext(r, res)
    \/ \E r \in BagToSet(usersRequests) : \E e \in Failures : userPermissionsError(r, e)
    \/ \E i \in DOMAIN modules : UsersPage_togglePermission(modules[i], "canView")
    \/ UsersPage_savePermissions
    \/ \E r \in BagToSet(usersRequests) : setUserPermissionsNext(r)
    \/ \E r \in BagToSet(usersRequests) : \E e \in Failures : setUserPermissionsError(r, e)

UsersSpec == UsersSpecInit /\ [][UsersSpecNext]_vars

\* the products page, its list loaded and paged
PaginationSpecInit ==
    /\ PermInit /\ ProfitIdle /\ DateIdle /\ InvIdle /\ DashIdle /\ GqlIdle /\ UsersIdle /\ PagingIdle
    /\ constructed("ProductsPage")
    /\ ShellIdle

PaginationSpecNext ==
    \/ \E r \in BagToSet(requests) : \E res \in ProductLists : ProductsPage_loadNext(r, res)
    \/ \E r \in BagToSet(requests) : \E e \in Failures : pageRequestError(r, e)
    \/ \E r \in BagToSet(requests) : quietNext(r)
    \/ ProductsPage_onSearch
    \/ \E size \in PageSizeInputs : setPageSize(size)
    \/ prevPage
    \/ nextPage

PaginationSpec == PaginationSpecInit /\ [][PaginationSpecNext]_vars

\* the shell layout: the menus and the sidebar are toggled while the
\* notification queries complete or fail
ShellSpecInit ==
    /\ PermInit /\ ProfitIdle /\ DateIdle /\ InvIdle /\ DashIdle /\ GqlIdle /\ PageIdle
    /\ UsersIdle /\ PagingIdle /\ ShellInit

ShellSpecNext ==
    \/ toggleUserMenu
    \/ toggleNotifications
    \/ closeMenus
    \/ toggleSidebar
    \/ closeSidebar
    \/ \E r \in BagToSet(shellRequests) : \E n \in 0..MaxAlerts : expiryAlertsNext(r, n)
    \/ \E r \in BagToSet(shellRequests) : expiryAlertsError(r)
    \/ \E r \in BagToSet(shellRequests) : \E n \in 0..MaxAlerts : lowStockAlertsNext(r, n)
    \/ \E r \in BagToSet(shellRequests) : lowStockAlertsError(r)

ShellSpec == ShellSpecInit /\ [][ShellSpecNext]_vars

PagesSpecInit ==
    /\ PermInit /\ ProfitIdle /\ DateIdle /\ InvIdle /\ DashIdle /\ GqlIdle
    /\ \E p \in Pages : constructed(p)
    /\ UsersIdle
    /\ PagingIdle
    /\ ShellIdle

PagesSpecNext ==
    \/ \E r \in BagToSet(requests) : queryNext(r)
    \/ \E r \in BagToSet(requests) : mutationNext(r)
    \/ \E r \in BagToSet(requests) : \E e \in Failures : pageRequestError(r, e)
    \/ \E r \in BagToSet(requests) : quietNext(r)
    \/ \E r \in BagToSet(requests) : quietError(r)
    \/ \E date \in PageDates : DashboardPage_loadProfit(date)
    \/ \E r \in BagToSet(requests) : \E res \in MeResult : DashboardPage_loadMeNext(r, res)
    \/ \E r \in BagToSet(requests) : DashboardPage_loadMeError(r)
    \/ \E r \in BagToSet(requests) : \E res \in HomePermissionsResult :
          DashboardPage_loadMyPermissionsNext(r, res)
    \/ \E r \in BagToSet(requests) : DashboardPage_loadMyPermissionsError(r)
    \/ \E r \in BagToSet(requests) : DashboardPage_loadProfitNext(r)
    \/ \E r \in BagToSet(requests) : \E e \in Failures : DashboardPage_loadProfitError(r, e)
    \/ \E date \in PageDates : ReportsPage_load(date)
    \/ ReportsPage_loadAudit
    \/ \E date \in PageDates : ReportsPage_loadDailySales(date)
    \/ \E id \in Ids : openDeleteConfirm(id)
    \/ cancelDeleteConfirm
    \/ confirmDelete
    \/ \E lines \in {0, 1} : \E editingId \in {Null, [id |-> "7"]} : savePurchase(lines, editingId)
    \/ \E r \in BagToSet(requests) : ProductsPage_loadNext(r, [i \in 1..MaxProducts |-> i])
    \/ \E editingId \in {Null, [id |-> "7"]} : \E invalid \in BOOLEAN :
          ProductsPage_saveEdit(editingId, invalid)
    \/ ProductsPage_create
    \/ \E r \in BagToSet(requests) : \E withBatch \in BOOLEAN : productSavedNext(r, withBatch)
    \/ ProductsPage_confirmDelete
    \/ \E invalid \in BOOLEAN : \E delta \in {0, 5} : InventoryPage_confirmAdjust(invalid, delta)
    \/ \E r \in BagToSet(requests) : dialogMutationNext(r)
    \/ \E r \in BagToSet(requests) : \E threshold \in {0, 5} : InventoryPage_loadNext(r, threshold)

PagesSpec == PagesSpecInit /\ [][PagesSpecNext]_vars

----------------------------------------------------------------------------
(* Properties of the permission resolver *)

\* the capabilities named by the four queries
Capabilities == {"canView", "canCreate", "canEdit", "canDelete"}

\* the answer of the query named cap for module m
query(cap, m) ==
    CASE cap = "canView"   -> canView(m)
      [] cap = "canCreate" -> canCreate(m)
      [] cap = "canEdit"   -> canEdit(m)
      [] cap = "canDelete" -> canDelete(m)

\* some request of the latest load is still in flight
loadInFlight == \E r \in pending : latest(r)

\* C1: for a user whose roles contain ADMIN every capability query answers
\* true, for every module and every content of the permission list (the
\* dashboard's own canView included).
C1_AdminBypass ==
    isAdmin =>
        \A m \in QueryModules :
            /\ \A cap \in Capabilities : query(cap, m) = TRUE
            /\ DashboardPage_canView(me, myPermissions, m) = TRUE

\* an admin whose list holds an all-false record for SALES, and no record for PURCHASING
C1_Witness ==
    /\ isAdmin
    /\ perm(SALES) # Undefined
    /\ \A cap \in Capabilities : perm(SALES)[cap] = FALSE
    /\ perm(PURCHASING) = Undefined

\* C2: if the Me request or the MyPermissions request of a load fails, then
\* once both have completed isAdmin is false and every capability query
\* answers false, whatever the other request returned.
C2_FailClosed ==
    (loaded /\ ~loadInFlight /\ failed # {}) =>
        /\ ~isAdmin
        /\ \A m \in QueryModules : \A cap \in Capabilities : query(cap, m) = FALSE

\* C3: a load swaps <<me, myPermissions>> atomically: if the first response of
\* the load changed one signal (exposing the new half beside the old half),
\* the response that completes the load changes nothing.
C3_AtomicSwap ==
    [][ (loadInFlight /\ ~loadInFlight' /\ firstChange)
            => <<me, myPermissions>>' = <<me, myPermissions>> ]_vars

\* C4: for a non-admin user the lookup is case-insensitive on both sides: when
\* exactly one record's module equals the queried name after uppercasing
\* both, every capability query answers that record's flag.
C4_CaseInsensitive ==
    ~isAdmin =>
        \A m \in QueryModules : \A i \in DOMAIN myPermissions :
            ( /\ toUpperCase(myPermissions[i].module) = toUpperCase(m)
              /\ \A j \in DOMAIN myPermissions :
                    j # i => toUpperCase(myPermissions[j].module) # toUpperCase(m) )
            => \A cap \in Capabilities : query(cap, m) = myPermissions[i][cap]

\* C5: for a non-admin user, a query for a module with no record in the list
\* answers false for all four capabilities, in every reachable state.
C5_AbsentModule ==
    ~isAdmin =>
        \A m \in QueryModules :
            (\A i \in DOMAIN myPermissions :
                toUpperCase(myPermissions[i].module) # toUpperCase(m))
            => \A cap \in Capabilities : query(cap, m) = FALSE

\* a known non-admin user after a completed load, with records but none for PURCHASING
C5_Witness ==
    /\ me # Null /\ ~isAdmin
    /\ loaded /\ pending = {} /\ failed = {}
    /\ myPermissions # <<>>
    /\ \A i \in DOMAIN myPermissions : toUpperCase(myPermissions[i].module) # PURCHASING

\* C6 as stated: with several records for one module, a non-admin user's
\* queries are answered from the last of them.
C6_LastWins ==
    ~isAdmin =>
        \A m \in QueryModules : \A i \in DOMAIN myPermissions :
            ( /\ myPermissions[i].module = toUpperCase(m)
              /\ \A j \in (i+1)..Len(myPermissions) :
                    myPermissions[j].module # toUpperCase(m) )
            => \A cap \in Capabilities : query(cap, m) = myPermissions[i][cap]

\* C6 amended: with several records for one module, a non-admin user's
\* queries are answered from the first of them.
C6_FirstWins ==
    ~isAdmin =>
        \A m \in QueryModules : \A i \in DOMAIN myPermissions :
            ( /\ myPermissions[i].module = toUpperCase(m)
              /\ \A j \in 1..(i-1) : myPermissions[j].module # toUpperCase(m) )
            => \A cap \in Capabilities : query(cap, m) = myPermissions[i][cap]

\* a non-admin user whose list holds two SALES records with different flags
C6_Witness ==
    /\ ~isAdmin
    /\ Len(myPermissions) = 2
    /\ myPermissions[1].module = SALES /\ myPermissions[2].module = SALES
    /\ myPermissions[1].canView /\ ~myPermissions[2].canView
    /\ canView(sales)

\* C7: without a reload, all load() calls together issue exactly one Me
\* request and one MyPermissions request, and a load() call that finds the
\* service loaded changes nothing.
C7_LoadOnce ==
    /\ [](reloads = 0 =>
            /\ meFetches = (IF loaded THEN 1 ELSE 0)
            /\ permFetches = (IF loaded THEN 1 ELSE 0))
    /\ [][ (loaded /\ reloads' = reloads) =>
                /\ meFetches' = meFetches /\ permFetches' = permFetches
                /\ pending' \subseteq pending /\ loaded' ]_vars
    /\ [][ (~skipped /\ skipped') =>
                UNCHANGED <<me, myPermissions, loaded, pending>> ]_vars

\* a further load() after the first load's Me request failed, with no reload
C7_Witness ==
    /\ skipped /\ reloads = 0
    /\ "me" \in failed
    /\ pending = {}
    /\ meFetches = 1

\* C8: once reload() has been called, a response to an earlier load never
\* overwrites what the reload's own response of the same kind has written.
C8_NoStaleOverwrite ==
    [][ \A r \in pending :
            ( /\ r \notin pending'
              /\ reloads > 0 /\ ~latest(r)
              /\ [kind |-> r.kind, gen |-> meFetches] \notin pending )
            => <<me, myPermissions>>' = <<me, myPermissions>> ]_vars

----------------------------------------------------------------------------
(* Properties of the profit-management page *)

\* the sum of f[i] over i in 1..n, from the first element on
RECURSIVE sumFrom(_, _)
sumFrom(f, i) == IF i > Len(f) THEN 0 ELSE f[i] + sumFrom(f, i + 1)

C10_GrossByPosition ==
    \A i \in DOMAIN rows :
        LET r == rows[i] IN
        IF r.from = r.to
        THEN r.grossProfit = grossOf(dailySalesReport(r.from))
        ELSE r.grossProfit =
                sumFrom([d \in 1..r.to[3] |->
                            grossOf(dailySalesReport(<<r.from[1], r.from[2], d>>))], 1)

\* month rows with different profits, set by a load whose daily responses
\* arrived out of index order
C10_Witness ==
    /\ reordered
    /\ Len(rows) >= 2
    /\ rows[1].from = rows[1].to
    /\ rows[1].grossProfit > 0 /\ rows[2].grossProfit > 0
    /\ rows[1].grossProfit # rows[2].grossProfit

yearRows == Len(rows) > 1 /\ rows[1].from # rows[1].to

\* the rows are those of a day load
dayRows == Len(rows) = 1

\* the sum of the amounts of the server's expense records dated from..to
expensesBetween(from, to) ==
    sumFrom([i \in DOMAIN expensesDb |->
                IF dateLeq(from, expensesDb[i].date) /\ dateLeq(expensesDb[i].date, to)
                THEN expensesDb[i].amount ELSE 0], 1)

C14_DayExpensesByDate ==
    dayRows => rows[1].expenses = expensesBetween(rows[1].from, rows[1].from)

----------------------------------------------------------------------------
(* Properties of the date helpers *)

\* the Gregorian leap-year rule
leapYear(y) == (y % 4 = 0 /\ y % 100 # 0) \/ y % 400 = 0

\* the number of days of a calendar month
calendarDays(y, m) ==
    IF m = 2 THEN (IF leapYear(y) THEN 29 ELSE 28)
    ELSE IF m \in {4, 6, 9, 11} THEN 30 ELSE 31

\* a date string YYYY-MM-DD of a calendar day, with a four-digit year
validIsoDate(d) ==
    /\ Len(d) = 3
    /\ d[1] \in 1000..9999 /\ d[2] \in 1..12 /\ d[3] \in 1..calendarDays(d[1], d[2])

\* the calendar day after d
nextDay(d) ==
    IF d[3] < calendarDays(d[1], d[2]) THEN <<d[1], d[2], d[3] + 1>>
    ELSE IF d[2] < 12 THEN <<d[1], d[2] + 1, 1>>
    ELSE <<d[1] + 1, 1, 1>>

----------------------------------------------------------------------------
(* Properties of the inventory page *)

\* the item's expiryDate is a date string of a calendar day (blanks around it allowed)
hasExpiryDate(i) ==
    /\ i.expiryDate # Null /\ i.expiryDate.text = "date"
    /\ i.expiryDate.date[2] \in 1..12
    /\ i.expiryDate.date[3] \in 1..calendarDays(i.expiryDate.date[1], i.expiryDate.date[2])

\* the day number of the item's expiry date
expiryDay(i) ==
    MakeDay(i.expiryDate.date[1], i.expiryDate.date[2] - 1, i.expiryDate.date[3])

\* today plus 3 calendar months, the day cut down to the length of the target month
clampedLimit ==
    LET idx == today[2] - 1 + 3
        y == today[1] + (idx \div 12)
        m == (idx % 12) + 1
    IN  <<y, m, Min(today[3], calendarDays(y, m))>>

\* C16: the classifier returns one status by precedence: qtyOnHand <= 0 gives
\* Out of stock whatever the expiry date; otherwise expiry before today gives
\* Expired; otherwise expiry up to and including the near-expiry limit
\* (today plus 3 months, as addMonths gives it) gives Near expiry, so an item
\* expiring today is Near expiry; otherwise Sell allowed.
C16_Precedence ==
    (item # Null /\ (item.qtyOnHand <= 0 \/ hasExpiryDate(item))) =>
        /\ status \in {"Out of stock", "Expired", "Near expiry", "Sell allowed"}
        /\ status =
             ( IF item.qtyOnHand <= 0 THEN "Out of stock"
               ELSE IF expiryDay(item) < todayDay THEN "Expired"
               ELSE IF expiryDay(item) <= addMonths(todayDay, 3) THEN "Near expiry"
               ELSE "Sell allowed" )
        /\ ((item.qtyOnHand > 0 /\ item.expiryDate.date = today) => status = "Near expiry")

\* an expired batch with a negative quantity is Out of stock
C16_Witness ==
    /\ item # Null /\ item.qtyOnHand < 0
    /\ hasExpiryDate(item) /\ expiryDay(item) < todayDay
    /\ status = "Out of stock"

\* C17: the near-expiry limit is today plus 3 calendar months with the day
\* cut down to the end of the target month when that month is shorter, so an
\* item in stock that has not expired is Near expiry exactly when its expiry
\* date is not after that limit.
C17_ClampedLimit ==
    (item # Null /\ item.qtyOnHand > 0 /\ hasExpiryDate(item) /\ expiryDay(item) >= todayDay) =>
        (status = "Near expiry" <=> dateLeq(item.expiryDate.date, clampedLimit))

\* C18: an item in stock whose expiryDate is null, empty, blank or not a date
\* is Expired, and the same item with qtyOnHand <= 0 is Out of stock.
C18_UnparsableExpiry ==
    (item # Null /\ ~hasExpiryDate(item)) =>
        status = (IF item.qtyOnHand > 0 THEN "Expired" ELSE "Out of stock")

\* an item in stock with a blank expiryDate, seen west of UTC where the
\* local date of the epoch is 1969-12-31
C18_Witness ==
    /\ item # Null /\ item.qtyOnHand > 0
    /\ item.expiryDate = blankString
    /\ tzWest
    /\ status = "Expired"

----------------------------------------------------------------------------
(* Properties of the profit dashboard *)

\* the report the server holds for date d, or null
reportOf(d) == dailySalesReport(d).dailySalesReport

\* a load has completed and its series is shown
seriesShown == profit7DaysLabels # <<>>

\* the items of the report of the day whose figures are shown
shownItems ==
    LET r == reportOf(profit7DaysLabels[Len(profit7DaysLabels)])
    IN  IF r = Null THEN <<>> ELSE r.items

\* C15: the series has 7 entries labelled with 7 consecutive calendar days in
\* ascending order, across month and year ends, the last being the selected
\* day once its load has succeeded; entry i is the totalProfitAmount of the report for day i (0 without
\* a report) minus the sum of the amounts of the expense records dated day i.
C15_Rolling7Days ==
    seriesShown =>
        /\ Len(profit7DaysLabels) = 7 /\ Len(profit7DaysData) = 7
        /\ (dashInflight = {} /\ dashError = Null /\ selectedDate # EmptyDate
                => profit7DaysLabels[7] = selectedDate)
        /\ \A i \in 1..6 : profit7DaysLabels[i + 1] = nextDay(profit7DaysLabels[i])
        /\ \A i \in 1..7 :
              LET d == profit7DaysLabels[i] IN
              profit7DaysData[i] =
                  (IF reportOf(d) = Null THEN 0 ELSE reportOf(d).totalProfitAmount)
                  - expensesBetween(d, d)

\* profits 10, 20, 15, none, 5, 30, 12 for 2024-05-01..07 with one expense of
\* 8 on 2024-05-03
C15_Witness ==
    /\ seriesShown
    /\ profit7DaysLabels[1] = <<2024, 5, 1>> /\ profit7DaysLabels[7] = <<2024, 5, 7>>
    /\ Len(expensesDb) = 1
    /\ profit7DaysData = <<10, 20, 7, 0, 5, 30, 12>>

\* C20: the top products are the report's items in non-increasing
\* quantitySold order, items of equal quantity in their original order; there
\* are min(10, number of items) of them, and no item left out has a larger
\* quantity than an item kept.
C20_TopProducts ==
    seriesShown =>
        LET items == shownItems
            n == Len(topProductsLabels)
            place(i) == topProductsLabels[i]
        IN  /\ n = Min(10, Len(items)) /\ Len(topProductsQty) = n
            /\ \A i \in 1..n :
                  /\ place(i) \in DOMAIN items
                  /\ items[place(i)].productName = topProductsLabels[i]
                  /\ items[place(i)].quantitySold = topProductsQty[i]
            /\ \A i, j \in 1..n :
                  i < j => \/ topProductsQty[i] > topProductsQty[j]
                           \/ topProductsQty[i] = topProductsQty[j] /\ place(i) < place(j)
            /\ \A k \in DOMAIN items :
                  (\A i \in 1..n : place(i) # k) =>
                      \A i \in 1..n : items[k].quantitySold <= topProductsQty[i]

\* a report with more than 10 items, some of equal quantity: 10 are shown,
\* not in the list's order
C20_Witness ==
    /\ seriesShown
    /\ Len(shownItems) > 10
    /\ Len(topProductsLabels) = 10
    /\ topProductsQty[1] > topProductsQty[10]
    /\ \E i \in 1..9 : topProductsQty[i] = topProductsQty[i + 1]
    /\ topProductsLabels # <<1, 2, 3, 4, 5, 6, 7, 8, 9, 10>>

\* the expense records the server holds for the day whose figures are shown
shownDayExpenses ==
    LET onDay(x) == x.date = profit7DaysLabels[Len(profit7DaysLabels)]
    IN  SelectSeq(expensesDb, onDay)

\* the group of a record: its category's name, "Other" without one
groupOf(x) == IF x.category = Null THEN "Other" ELSE x.category.name

\* the sum of the amounts of the shown day's records of group g
groupValue(g) ==
    sumFrom([i \in DOMAIN shownDayExpenses |->
                IF groupOf(shownDayExpenses[i]) = g THEN shownDayExpenses[i].amount ELSE 0], 1)

groupNames == { groupOf(shownDayExpenses[i]) : i \in DOMAIN shownDayExpenses }

C21_WitnessMany ==
    /\ seriesShown
    /\ Cardinality(groupNames) > 7
    /\ Len(expenseBreakdownLabels) = 7
    /\ "Other" \in { expenseBreakdownLabels[i] : i \in 1..7 }

----------------------------------------------------------------------------
(* Properties of GraphqlService *)

\* C22: every call of request posts once; while the response is pending the
\* caller has got nothing, and afterwards exactly one outcome: with a
\* non-empty errors list the error whose message is the messages joined by
\* line breaks, with or without data; else without data the error 'No data
\* returned from GraphQL'; else the data.
C22_OneOutcome ==
    \A c \in DOMAIN http :
        LET x == http[c]
            res == x.response.body
            hasErrors == "errors" \in DOMAIN res /\ res.errors # <<>>
            hasData == "data" \in DOMAIN res /\ res.data # Null
        IN  /\ Len(x.posts) = 1
            /\ (x.response = Pending => x.outcomes = <<>>)
            /\ (x.response # Pending => Len(x.outcomes) = 1)
            /\ ("body" \in DOMAIN x.response =>
                  /\ (hasErrors =>
                        /\ DOMAIN x.outcomes[1] = {"error"}
                        /\ x.outcomes[1].error =
                              (IF Len(res.errors) = 1 THEN <<"a">> ELSE <<"a", "\n", "b">>))
                  /\ (~hasErrors /\ ~hasData =>
                        x.outcomes[1] = [error |-> <<"No data returned from GraphQL">>])
                  /\ (~hasErrors /\ hasData => x.outcomes[1] = [next |-> res.data])
                  /\ ("next" \in DOMAIN x.outcomes[1] => ~hasErrors /\ hasData))

\* a response carrying both data and two errors has been turned into the one
\* error, while another call is still pending
C22_Witness ==
    \E c, d \in DOMAIN http :
        /\ "body" \in DOMAIN http[c].response
        /\ DOMAIN http[c].response.body = {"data", "errors"}
        /\ http[c].response.body.data # Null
        /\ Len(http[c].response.body.errors) = 2
        /\ http[c].outcomes = << [error |-> <<"a", "\n", "b">>] >>
        /\ http[d].response = Pending

----------------------------------------------------------------------------
(* Properties of overlapping profit loads *)

\* the loads that are in flight before the step and no longer after it
gone == { L \in inflight : ~\E M \in inflight' : M.id = L.id }

\* C24: a load leaves the loads in flight only by its own completion or
\* failure, never because another load is started; and whenever a load
\* completes with no error shown, the rows are set to those of that load's
\* parameters, whatever the form holds
C24_LastToCompleteWins ==
    [][ /\ Cardinality(gone) <= 1
        /\ \A L \in gone :
              /\ loading' = FALSE
              /\ form' = form
              /\ (error = Null /\ error' = Null) =>
                                   /\ Len(rows') = 1
                                   /\ rows'[1].from = L.form.date
                                   /\ rows'[1].grossProfit =
                                         grossOf(dailySalesReport(L.form.date))
        /\ (gone = {} /\ validForm(form')) => rows' = rows ]_vars

\* both loads have completed, the second one first: the rows are those of the
\* first load's date while the form holds the second load's date
C24_Witness ==
    /\ inflight = {} /\ error = Null /\ ~loading
    /\ form.mode = "DAY" /\ form.date = <<2024, 1, 2>>
    /\ Len(rows) = 1 /\ rows[1].from = Today

----------------------------------------------------------------------------
(* Properties of the pages *)

\* the requests of a page's load and save: the dashboard's valuation, counts,
\* alerts and movements requests, the lists and the mutations
LoadSaveKinds == QueryKinds \cup MutationKinds \cup {"valuation", "counts", "alerts"}

\* the step just taken is the error handler of request kind k
failedJust(k) ==
    /\ "handler" \in DOMAIN lastStep
    /\ lastStep.handler = "error"
    /\ lastStep.request.kind = k

\* C23: whenever a request of a page's load or save has just failed, the
\* page's error signal holds a message
C23_FailureSurfaced ==
    \A k \in LoadSaveKinds :
        failedJust(k) => /\ pgError # Null
                         /\ "message" \in DOMAIN pgError

\* C25: on the dashboard, once no request is in flight, a user whose me and
\* myPermissions fetches have succeeded and who may view REPORTS has had
\* loadProfit started for the date of the form: the figures or the error of a
\* profit load are there
C25_ProfitLoaded ==
    ( /\ page = "DashboardPage" /\ requests = EmptyBag
      /\ dashMe # Null /\ dashPermissions # <<>>
      /\ DashboardPage_canView(dashMe, dashPermissions, REPORTS)
      /\ pageDate # EmptyDate )
    => (profitShown # Null \/ profitError # Null)

----------------------------------------------------------------------------
(* Properties of the users page *)

\* C26: the rows of the permissions dialog are the defaults or come from the
\* stored permissions of the selected user, and every setUserPermissions
\* input sent carries rows that are the defaults or come from the stored
\* permissions of the user it names
C26_RowsOfSelectedUser ==
    /\ (permissionsOpen => permissionsOwner \in {"", selectedUserId})
    /\ \A s \in sent : s.owner \in {"", s.userId}

----------------------------------------------------------------------------
(* Properties of loading, the dialogs and the pagination *)

stepOf(name) == "handler" \in DOMAIN lastStep' /\ lastStep'.handler = name

\* C28: on the pages with a confirmation dialog the dialog is open exactly
\* when a pending target is set; open and cancel issue no request, confirm
\* without a pending target issues none, and one confirm with a pending target
\* issues exactly one mutation, for the pending id
C28_DialogAndTarget ==
    /\ [](page \in DialogPages => (dialogOpen <=> pendingTarget # Null))
    /\ [][ /\ (stepOf("openDeleteConfirm") \/ stepOf("cancelDeleteConfirm"))
               => requests' = requests
           /\ (stepOf("confirmDelete") \/ stepOf("confirmAdjust")) =>
                 IF pendingTarget = Null \/ lastStep'.request = Null
                 THEN requests' = requests
                 ELSE /\ lastStep'.request = pendingTarget
                      /\ requests' = requests (+) SetToBag(
                            { gqlRequest(IF page = "InventoryPage" THEN "adjust" ELSE "delete",
                                         pendingTarget) }) ]_vars

\* a delete of order 8 is in flight after a confirm, the dialog closed again
C28_Witness ==
    /\ page = "PurchasingPage"
    /\ lastStep = ran("confirmDelete", [id |-> "8"])
    /\ BagIn(gqlRequest("delete", [id |-> "8"]), requests)
    /\ ~dialogOpen /\ pendingTarget = Null

\* on the products page the dialog is still open while the delete is in flight
C28_WitnessProducts ==
    /\ page = "ProductsPage"
    /\ BagIn(gqlRequest("delete", [id |-> "7"]), requests)
    /\ dialogOpen /\ pendingTarget = [id |-> "7"]

RECURSIVE pagesFrom(_)
\* the pages idx..totalPages-1, one after the other
pagesFrom(idx) == IF idx >= totalPages THEN <<>> ELSE pageOf(idx) \o pagesFrom(idx + 1)

\* whether setPageSize ignores size
ignoredSize(size) ==
    \/ "string" \in DOMAIN size /\ size.string \in {"", "abc", "Infinity"}
    \/ "string" \in DOMAIN size /\ size.string = "numeral" /\ size.value <= 0
    \/ "nan" \in DOMAIN size
    \/ "int" \in DOMAIN size /\ size.int <= 0

C29_WitnessIgnored ==
    /\ page = "ProductsPage" /\ lastStep = ran("setPageSize", [string |-> "abc"])
    /\ pageSize = 2 /\ pageIndex = 1

----------------------------------------------------------------------------
(* Properties of the shell layout *)

\* C30: the user menu and the notifications panel are never both open; a
\* toggle that opens one leaves the other closed, closeMenus leaves both
\* closed, and none of the three changes sidebarOpen
C30_MenusExclusive ==
    /\ [](~(userMenuOpen /\ notificationsOpen))
    /\ [][ /\ shellStep' = "toggleUserMenu" =>
                 /\ userMenuOpen' = ~userMenuOpen
                 /\ (userMenuOpen' => ~notificationsOpen')
                 /\ sidebarOpen' = sidebarOpen
           /\ shellStep' = "toggleNotifications" =>
                 /\ notificationsOpen' = ~notificationsOpen
                 /\ (notificationsOpen' => ~userMenuOpen')
                 /\ sidebarOpen' = sidebarOpen
           /\ shellStep' = "closeMenus" =>
                 /\ ~userMenuOpen' /\ ~notificationsOpen'
                 /\ sidebarOpen' = sidebarOpen ]_vars

\* the user menu has just been opened and the notifications panel is closed,
\* after the panel had been opened (its refresh is in flight next to the
\* constructor's); the sidebar is closed as it was
C30_Witness ==
    /\ shellStep = "toggleUserMenu" /\ userMenuOpen /\ ~notificationsOpen
    /\ ~sidebarOpen
    /\ BagCardinality(shellRequests) = 2

====
